---- MODULE Spec2Model ----
(***************************************************************************)
(* Model of the temporal fall / lying event engine of                      *)
(* AI/src/core/yolo_fall_detector.py (class YOLOFallDetector).             *)
(*                                                                         *)
(* Fixed point: confidences, speeds, stability, ratios and motion          *)
(* magnitudes are in thousandths (0.3 is 300); the fall confidence is in   *)
(* millionths (0.6 is 600000); angles are whole degrees, positions whole   *)
(* pixels, time whole seconds.  An Optional value is a sequence: <<>> is   *)
(* None and <<v>> is the value v.                                          *)
(*                                                                         *)
(* The neural pose estimator and OpenCV are outside the model: a pose      *)
(* frame arrives as the geometry the extractor functions would compute     *)
(* from its keypoints, together with the confidence of each landmark       *)
(* group the extractors test; an image arrives as an abstract scene whose  *)
(* frame-difference magnitudes are tabulated.  FallEvent.location and      *)
(* FallEvent.frame_data (pixels, JPEG bytes) are not modelled.             *)
(***************************************************************************)
EXTENDS Integers, Sequences, FiniteSets, TLC

\* ------------------------------------------------------------ bounds

\* first clock reading of a run (time.time() is far above every cooldown)
T0 == 100
\* number of process_frame calls in one run
MaxFrames == 4
\* seconds a run lasts after T0
MaxSpan == 7
\* reset() calls in one run
MaxResets == 1
\* process_frame calls in one run on the slow clock
MaxSlowFrames == 5
\* seconds a run on the slow clock lasts after T0
MaxSlowSpan == 15
\* pose frames of the lying subject before the detection is lost
LieFrames == 20
\* no-pose frames that follow them
LieGap == 3
\* seconds that run lasts after T0
LieSpan == 3

\* ------------------------------------------------- configuration values

cooldown_seconds == 5
lying_alert_threshold == 3
lying_cooldown == 10
max_missing_frames == 2
vertical_speed_threshold == 300
motion_threshold == 150
history_size == 30
acceleration_history_size == 10
frame_diff_history_size == 10
frame_height == 1000

\* ------------------------------------------------------------ helpers

None == <<>>
Some(v) == <<v>>
Val(o) == o[1]

Min(a, b) == IF a < b THEN a ELSE b
Max(a, b) == IF a > b THEN a ELSE b

\* a deque that never drops an entry
AppendMax_unbounded(q, x, n) == Append(q, x)

\* deque(maxlen = n).append(x)
AppendMax(q, x, n) == IF Len(q) < n THEN Append(q, x) ELSE Append(Tail(q), x)

\* list(q)[-n:]
LastN(q, n) == IF Len(q) <= n THEN q ELSE SubSeq(q, Len(q) - n + 1, Len(q))

RECURSIVE SumSeq(_)
SumSeq(q) == IF q = <<>> THEN 0 ELSE Head(q) + SumSeq(Tail(q))

\* floor of the square root, by bisection on lo..hi
RECURSIVE ISqrtIn(_, _, _)
ISqrtIn(n, lo, hi) ==
  IF lo >= hi THEN lo
  ELSE LET mid == (lo + hi + 1) \div 2
       IN IF mid * mid <= n THEN ISqrtIn(n, mid, hi) ELSE ISqrtIn(n, lo, mid - 1)

ISqrt(n) == ISqrtIn(n, 0, n)

PoseStates == {"standing", "sitting", "lying", "falling", "unknown"}

\* ------------------------------------------------------------ inputs

\* Landmark groups of the COCO layout and how many landmarks each holds.
Groups == {"head", "shoulders", "arms", "hips", "knees", "ankles"}
GroupSize(g) == CASE g = "head" -> 5 [] g = "arms" -> 4 [] OTHER -> 2

AllConf(c) == [g \in Groups |-> c]

\* What the pose estimator delivers for one frame.  detected = FALSE is the
\* explicit "no detection" signal.
NoDetection ==
  [detected |-> FALSE, name |-> "none", conf |-> AllConf(0), cx |-> 0, cy |-> 0,
   trunk |-> 0, ratio |-> 0, height |-> 0, hh |-> 0, leg |-> 0, feet |-> 0]

Upright ==
  [detected |-> TRUE, name |-> "upright", conf |-> AllConf(900), cx |-> 500, cy |-> 300,
   trunk |-> 5, ratio |-> 400, height |-> 500, hh |-> 200, leg |-> 5, feet |-> 100]

Seated ==
  [detected |-> TRUE, name |-> "seated", conf |-> AllConf(900), cx |-> 500, cy |-> 500,
   trunk |-> 40, ratio |-> 800, height |-> 300, hh |-> 80, leg |-> 50, feet |-> 100]

Prone ==
  [detected |-> TRUE, name |-> "prone", conf |-> AllConf(900), cx |-> 560, cy |-> 800,
   trunk |-> 85, ratio |-> 2000, height |-> 150, hh |-> 10, leg |-> 80, feet |-> 100]

\* keypoints delivered, every landmark with confidence 0
ZeroConf ==
  [detected |-> TRUE, name |-> "zeroconf", conf |-> AllConf(0), cx |-> 500, cy |-> 800,
   trunk |-> 85, ratio |-> 2000, height |-> 150, hh |-> 10, leg |-> 80, feet |-> 100]

\* a landmark array that holds the first 11 of the 17 landmarks only
Truncated ==
  [Prone EXCEPT !.name = "truncated", !.conf = [g \in {"head", "shoulders", "arms"} |-> 900]]

Poses == {Upright, Seated, Prone, ZeroConf}

\* Scenes the camera can show: a flat one and a finely textured one.
Images == {"flatA", "textured"}
Textured(img) == img = "textured"

\* A third scene, textured over a smaller part of the lower half.
Grained(img) == img = "grained"

\* Fraction of the pixels (weighted as in lines 528-538) that differ by more
\* than 15 grey levels between a scene blurred once and blurred twice: none
\* in a flat scene, as many as the texture covers otherwise.
BlurResidual(img) ==
  IF Textured(img) THEN 2 * motion_threshold
  ELSE IF Grained(img) THEN (motion_threshold * 9) \div 10
  ELSE 0

\* seconds between two process_frame calls (time.time() readings)
DtSet == {1, cooldown_seconds}

\* ------------------------------------------------ BodyMetricsExtractor

\* keypoints[i] and conf[i] exist for the landmarks of group g; where they
\* do not, the extractors catch the IndexError
Indexable(p, g) == g \in DOMAIN p.conf

\* _get_body_center: midpoint of the hips, only if both exceed 0.5
get_body_center(p) ==
  IF Indexable(p, "hips") /\ p.conf["hips"] > 500 THEN Some(<<p.cx, p.cy>>) ELSE None

\* _get_body_angle: needs both shoulders and both hips above 0.5
get_body_angle(p) ==
  IF /\ Indexable(p, "shoulders") /\ Indexable(p, "hips")
     /\ p.conf["shoulders"] > 500 /\ p.conf["hips"] > 500
  THEN Some(p.trunk) ELSE None

\* number of landmarks with confidence above min_conf
VisiblePoints(p, min_conf) ==
  LET vis == {g \in DOMAIN p.conf : p.conf[g] > min_conf}
      RECURSIVE Count(_)
      Count(S) == IF S = {} THEN 0
                  ELSE LET g == CHOOSE x \in S : TRUE IN GroupSize(g) + Count(S \ {g})
  IN Count(vis)

\* _get_body_bbox_ratio (min_conf = 0.3)
get_body_bbox_ratio(p) ==
  IF VisiblePoints(p, 300) < 4 THEN None
  ELSE IF p.height < 10 THEN None
  ELSE Some(p.ratio)

\* _get_head_hip_vertical_diff: nose (or both eyes) and both hips above 0.5
get_head_hip_vertical_diff(p) ==
  IF /\ Indexable(p, "head") /\ Indexable(p, "hips")
     /\ p.conf["head"] > 500 /\ p.conf["hips"] > 500
  THEN Some(p.hh) ELSE None

\* _get_leg_angle: a leg counts when its hip and ankle exceed 0.4
get_leg_angle(p) ==
  IF /\ Indexable(p, "hips") /\ Indexable(p, "ankles")
     /\ p.conf["hips"] > 400 /\ p.conf["ankles"] > 400
  THEN Some(p.leg) ELSE None

\* --------------------------------------------------- TemporalTracker

\* sums over the consecutive pairs of the last entries that have both
\* centers and a positive time step
RECURSIVE PairSum(_, _, _, _)
PairSum(rc, rt, i, what) ==
  IF i > Len(rc) THEN 0
  ELSE LET ok == rc[i] # None /\ rc[i-1] # None /\ rt[i] - rt[i-1] > 0
           term == IF ~ok THEN 0
                   ELSE IF what = "dy" THEN Val(rc[i])[2] - Val(rc[i-1])[2]
                   ELSE rt[i] - rt[i-1]
       IN term + PairSum(rc, rt, i + 1, what)

\* _calculate_vertical_speed(frame_height), thousandths of a frame per second
calculate_vertical_speed(center_history, timestamp_history, fh) ==
  IF Len(center_history) < 2 \/ Len(timestamp_history) < 2 THEN 0
  ELSE LET recent_centers == LastN(center_history, 5)
           recent_times == LastN(timestamp_history, 5)
           total_dy == PairSum(recent_centers, recent_times, 2, "dy")
           total_dt == PairSum(recent_centers, recent_times, 2, "dt")
       IN IF total_dt > 0
          THEN IF fh > 0 THEN (total_dy * 1000) \div (total_dt * fh)
               ELSE total_dy \div total_dt
          ELSE 0

\* the speed sample _calculate_acceleration takes as the previous one
PrevSpeedSample(velocity_history) == velocity_history[Len(velocity_history)]

\* _calculate_acceleration(current_speed, current_time); the caller has
\* already appended current_speed to velocity_history
calculate_acceleration(velocity_history, timestamp_history, current_speed, current_time) ==
  IF Len(velocity_history) < 2 \/ Len(timestamp_history) < 2 THEN 0
  ELSE LET prev_speed == PrevSpeedSample(velocity_history)
           prev_time == timestamp_history[Len(timestamp_history) - 1]
           dt == current_time - prev_time
       IN IF dt > 0 THEN (current_speed - prev_speed) \div dt ELSE 0

\* np.std of the x positions, in tenths of a pixel
SwayTenths(centers) ==
  LET xs == [i \in 1..Len(centers) |-> Val(centers[i])[1]]
      n == Len(xs)
      s1 == SumSeq(xs)
      s2 == SumSeq([i \in 1..n |-> xs[i] * xs[i]])
  IN ISqrt(((n * s2 - s1 * s1) * 100) \div (n * n))

\* _calculate_stability_score
calculate_stability_score(p, center_history) ==
  LET base == IF p.conf["ankles"] > 500
              THEN 300 + (700 * Min((p.feet * 1000) \div 200, 1000)) \div 1000
              ELSE 500
      recent == LastN(center_history, 5)
      swayed == IF Len(center_history) >= 5 /\ \A i \in 1..Len(recent) : recent[i] # None
                THEN (base * Max(0, 1000 - SwayTenths(recent) * 2)) \div 1000
                ELSE base
  IN IF ~Indexable(p, "ankles") THEN 500 ELSE Max(0, Min(1000, swayed))

\* ------------------------------------------------ FallConfidenceScorer

\* the scorer with the height penalty applied below half of the frame
calculate_fall_confidence_penalty_below_half(angle, vertical_speed, acceleration, stability, center_y_norm) ==
  IF angle = None THEN 0
  ELSE LET a == Val(angle)
           angle_score == IF a > 30 THEN Min(((a - 30) * 1000) \div 60, 1000) ELSE 0
           speed_score == IF vertical_speed > 0
                          THEN Min((vertical_speed * 1000) \div vertical_speed_threshold, 1000)
                          ELSE 0
           accel_score == IF acceleration > 500 THEN Min(acceleration \div 2, 1000) ELSE 0
           instability_score == 1000 - stability
           score == angle_score * 300 + speed_score * 250 + accel_score * 200
                    + instability_score * 150
           placed == IF center_y_norm = None THEN score
                     ELSE IF Val(center_y_norm) > 700 /\ a > 60 THEN score + 100000
                     ELSE IF Val(center_y_norm) < 500 THEN (score * 8) \div 10
                     ELSE score
       IN Max(0, Min(1000000, placed))

\* _calculate_fall_confidence, in millionths
calculate_fall_confidence(angle, vertical_speed, acceleration, stability, center_y_norm) ==
  IF angle = None THEN 0
  ELSE LET a == Val(angle)
           angle_score == IF a > 30 THEN Min(((a - 30) * 1000) \div 60, 1000) ELSE 0
           speed_score == IF vertical_speed > 0
                          THEN Min((vertical_speed * 1000) \div vertical_speed_threshold, 1000)
                          ELSE 0
           accel_score == IF acceleration > 500 THEN Min(acceleration \div 2, 1000) ELSE 0
           instability_score == 1000 - stability
           score == angle_score * 300 + speed_score * 250 + accel_score * 200
                    + instability_score * 150
           placed == IF center_y_norm = None THEN score
                     ELSE IF Val(center_y_norm) > 700 /\ a > 60 THEN score + 100000
                     ELSE IF Val(center_y_norm) < 400 THEN (score * 8) \div 10
                     ELSE score
       IN Max(0, Min(1000000, placed))

\* the gate reduced to its confidence test
FallingGate_confidence_only(fall_confidence, vertical_speed, stability) ==
  fall_confidence > 600000

\* the conjunction gate of _determine_pose_state (lines 636-638)
FallingGate(fall_confidence, vertical_speed, stability) ==
  /\ fall_confidence > 600000
  /\ (vertical_speed > (vertical_speed_threshold * 3) \div 10 \/ stability < 300)

\* -------------------------------------------------- PostureClassifier

\* the vote with an unavailable metric read as the value 0
Votes_unavailable_as_zero(angle, bbox_ratio, head_hip_diff, leg_angle, normalized_y) ==
  LET r == IF bbox_ratio = None THEN 0 ELSE Val(bbox_ratio)
      d == IF head_hip_diff = None THEN 0 ELSE Val(head_hip_diff)
      l == IF leg_angle = None THEN 0 ELSE Val(leg_angle)
      y == IF normalized_y = None THEN 0 ELSE Val(normalized_y)
      f1 == IF angle > 70 THEN <<3, 0, 0>>
            ELSE IF angle > 50 THEN <<1, 2, 0>>
            ELSE IF angle > 30 THEN <<0, 3, 0>>
            ELSE <<0, 0, 3>>
      f2 == IF r > 1500 THEN <<3, 0, 0>>
            ELSE IF r > 1000 THEN <<2, 1, 0>>
            ELSE IF r > 700 THEN <<0, 2, 0>>
            ELSE <<0, 0, 2>>
      f3 == IF d < 20 THEN <<3, 0, 0>>
            ELSE IF d < 50 THEN <<1, 1, 0>>
            ELSE IF d < 100 THEN <<0, 2, 0>>
            ELSE <<0, 0, 2>>
      f4 == IF l > 70 THEN <<2, 0, 0>>
            ELSE IF l > 45 THEN <<1, 2, 0>>
            ELSE IF l > 25 THEN <<0, 2, 0>>
            ELSE <<0, 0, 2>>
      f5 == IF y > 750 THEN <<2, 0, 0>>
            ELSE IF y > 600 THEN <<1, 1, 0>>
            ELSE <<0, 0, 0>>
  IN [k \in 1..3 |-> f1[k] + f2[k] + f3[k] + f4[k] + f5[k]]

\* votes <<lying, sitting, standing>> of the five factors
Votes(angle, bbox_ratio, head_hip_diff, leg_angle, normalized_y) ==
  LET f1 == IF angle > 70 THEN <<3, 0, 0>>
            ELSE IF angle > 50 THEN <<1, 2, 0>>
            ELSE IF angle > 30 THEN <<0, 3, 0>>
            ELSE <<0, 0, 3>>
      f2 == IF bbox_ratio = None THEN <<0, 0, 0>>
            ELSE IF Val(bbox_ratio) > 1500 THEN <<3, 0, 0>>
            ELSE IF Val(bbox_ratio) > 1000 THEN <<2, 1, 0>>
            ELSE IF Val(bbox_ratio) > 700 THEN <<0, 2, 0>>
            ELSE <<0, 0, 2>>
      f3 == IF head_hip_diff = None THEN <<0, 0, 0>>
            ELSE IF Val(head_hip_diff) < 20 THEN <<3, 0, 0>>
            ELSE IF Val(head_hip_diff) < 50 THEN <<1, 1, 0>>
            ELSE IF Val(head_hip_diff) < 100 THEN <<0, 2, 0>>
            ELSE <<0, 0, 2>>
      f4 == IF leg_angle = None THEN <<0, 0, 0>>
            ELSE IF Val(leg_angle) > 70 THEN <<2, 0, 0>>
            ELSE IF Val(leg_angle) > 45 THEN <<1, 2, 0>>
            ELSE IF Val(leg_angle) > 25 THEN <<0, 2, 0>>
            ELSE <<0, 0, 2>>
      f5 == IF normalized_y = None THEN <<0, 0, 0>>
            ELSE IF Val(normalized_y) > 750 THEN <<2, 0, 0>>
            ELSE IF Val(normalized_y) > 600 THEN <<1, 1, 0>>
            ELSE <<0, 0, 0>>
  IN [k \in 1..3 |-> f1[k] + f2[k] + f3[k] + f4[k] + f5[k]]

\* the final decision on the three totals (lines 710-721)
Plurality(lying_score, sitting_score, standing_score) ==
  LET max_score == Max(lying_score, Max(sitting_score, standing_score))
  IN IF max_score = lying_score /\ lying_score > sitting_score THEN "lying"
     ELSE IF max_score = sitting_score /\ sitting_score > standing_score THEN "sitting"
     ELSE "standing"

\* center_y / frame_height when both are there (lines 616-618)
NormalizedY(center_y, fh) ==
  IF center_y # None /\ fh > 0 THEN Some((Val(center_y) * 1000) \div fh) ELSE None

\* the early return of _determine_pose_state for a missing trunk angle
NoAngleState(angle) == IF angle = None THEN "unknown" ELSE "known"

\* _determine_pose_state
determine_pose_state(angle, vertical_speed, acceleration, stability, p, center_y, fh) ==
  IF NoAngleState(angle) = "unknown" THEN "unknown"
  ELSE LET normalized_y == NormalizedY(center_y, fh)
           fall_confidence == calculate_fall_confidence(
                                angle, vertical_speed, acceleration, stability, normalized_y)
           v == Votes(Val(angle), get_body_bbox_ratio(p), get_head_hip_vertical_diff(p),
                      get_leg_angle(p), normalized_y)
       IN IF FallingGate(fall_confidence, vertical_speed, stability) THEN "falling"
          ELSE Plurality(v[1], v[2], v[3])

\* ------------------------------------------------ MotionFallbackSignal

\* Fraction of changed pixels (weighted 0.3 whole frame, 0.7 lower half)
\* between the stored frame, blurred `blurs` times in all, and the current
\* frame blurred once.  Blurring leaves a flat scene as it is; a textured
\* scene blurred twice differs from itself blurred once by its BlurResidual.
FrameDifference(prev_img, blurs, img) ==
  IF prev_img # img THEN 1000
  ELSE IF blurs = 2 THEN BlurResidual(img)
  ELSE 0

\* _detect_motion_magnitude: <<magnitude, new prev_frame>>.  The first call
\* stores the unblurred grayscale frame, every later call the blurred one,
\* and every call blurs the stored frame again before differencing.
detect_motion_magnitude(prev_frame, img) ==
  IF prev_frame = None
  THEN [mag |-> 0, prev_frame |-> Some([img |-> img, blurred |-> FALSE])]
  ELSE LET pf == Val(prev_frame)
           d == FrameDifference(pf.img, IF pf.blurred THEN 2 ELSE 1, img)
       IN [mag |-> Min(d, 1000), prev_frame |-> Some([img |-> img, blurred |-> TRUE])]

\* the three spike patterns of _analyze_motion_pattern (lines 581-597)
SpikePattern(motion_mag, prev_motion) ==
  \/ (motion_mag - prev_motion) * 10 > motion_threshold * 6
  \/ motion_mag * 10 > motion_threshold * 15
  \/ (motion_mag > motion_threshold /\ prev_motion * 10 < motion_threshold * 5)

\* _analyze_motion_pattern: appends the sample, then compares it with the
\* entry before it
analyze_motion_pattern(frame_diff_history, motion_mag) ==
  LET h == AppendMax(frame_diff_history, motion_mag, frame_diff_history_size)
      recent_motion == IF Len(h) >= 5 THEN LastN(h, 5) ELSE h
  IN [frame_diff_history |-> h,
      spike |-> IF Len(h) < 2 THEN FALSE
                ELSE SpikePattern(motion_mag, recent_motion[Len(recent_motion) - 1])]

\* ------------------------------------------------------------ session

\* the state __init__ leaves (lines 113-162)
NewSession ==
  [model |-> TRUE,
   use_motion_fallback |-> TRUE,
   pose_history |-> <<>>,
   center_history |-> <<>>,
   angle_history |-> <<>>,
   timestamp_history |-> <<>>,
   velocity_history |-> <<>>,
   acceleration_history |-> <<>>,
   stability_scores |-> <<>>,
   current_state |-> "unknown",
   fall_start_time |-> None,
   last_fall_time |-> 0,
   fall_confirmed |-> FALSE,
   lying_start_time |-> None,
   last_lying_alert_time |-> 0,
   missing_frames |-> 0,
   last_valid_center |-> None,
   last_valid_angle |-> None,
   last_valid_speed |-> 0,
   last_valid_acceleration |-> 0,
   was_falling_before_missing |-> FALSE,
   frames_in_falling_state |-> 0,
   prev_frame |-> None,
   frame_diff_history |-> <<>>,
   cooldown_seconds |-> cooldown_seconds,
   lying_alert_threshold |-> lying_alert_threshold,
   lying_cooldown |-> lying_cooldown,
   max_missing_frames |-> max_missing_frames]

\* __init__(config): the durations and the frame count are stored as
\* config.get returns them (lines 122, 144, 145, 149)
init(config) ==
  [NewSession EXCEPT !.cooldown_seconds = config.cooldown_seconds,
                     !.lying_alert_threshold = config.lying_alert_threshold,
                     !.lying_cooldown = config.lying_cooldown,
                     !.max_missing_frames = config.max_missing_frames]

\* a reset() that leaves acceleration_history as it is
reset_keeps_acceleration(s) ==
  [s EXCEPT !.pose_history = <<>>,
            !.center_history = <<>>,
            !.angle_history = <<>>,
            !.timestamp_history = <<>>,
            !.velocity_history = <<>>,
            !.stability_scores = <<>>,
            !.current_state = "unknown",
            !.missing_frames = 0,
            !.last_valid_center = None,
            !.last_valid_angle = None,
            !.last_valid_speed = 0,
            !.last_valid_acceleration = 0,
            !.was_falling_before_missing = FALSE,
            !.frames_in_falling_state = 0,
            !.fall_start_time = None,
            !.fall_confirmed = FALSE]

\* reset() (lines 1212-1232)
reset(s) ==
  [s EXCEPT !.pose_history = <<>>,
            !.center_history = <<>>,
            !.angle_history = <<>>,
            !.timestamp_history = <<>>,
            !.velocity_history = <<>>,
            !.acceleration_history = <<>>,
            !.stability_scores = <<>>,
            !.current_state = "unknown",
            !.missing_frames = 0,
            !.last_valid_center = None,
            !.last_valid_angle = None,
            !.last_valid_speed = 0,
            !.last_valid_acceleration = 0,
            !.was_falling_before_missing = FALSE,
            !.frames_in_falling_state = 0,
            !.fall_start_time = None,
            !.fall_confirmed = FALSE]

\* FallEvent(...); `via` names the emission path that built it
FallEvent(timestamp, confidence, previous_state, duration, via) ==
  [timestamp |-> timestamp, confidence |-> confidence,
   previous_state |-> previous_state, duration |-> duration, via |-> via]

\* a cooldown test that any later frame passes
CooldownElapsed_any(s, current_time) ==
  current_time - s.last_fall_time >= 0

\* current_time - self.last_fall_time >= self.cooldown_seconds
CooldownElapsed(s, current_time) ==
  current_time - s.last_fall_time >= s.cooldown_seconds

\* the duration measured from the frame back to the start, with the sign lost
SinceFallStart_reversed(s, current_time) ==
  (IF s.fall_start_time = None THEN current_time ELSE Val(s.fall_start_time)) - current_time

\* current_time - (self.fall_start_time or current_time)
SinceFallStart(s, current_time) ==
  current_time - (IF s.fall_start_time = None THEN current_time ELSE Val(s.fall_start_time))

\* an emission that also restarts the lying clock
Confirm_restarts_lying(s, current_time) ==
  [s EXCEPT !.fall_confirmed = TRUE, !.last_fall_time = current_time,
            !.lying_start_time = None]

\* the assignments every emission path makes
Confirm(s, current_time) ==
  [s EXCEPT !.fall_confirmed = TRUE, !.last_fall_time = current_time]

\* The dictionary process_frame returns.  kind tells which of the three
\* return statements built it; a key that return statement does not set
\* holds FALSE, None or 0 here.  motion_magnitude is the magnitude the
\* frame's fall decision used.
Result(kind, fall_event, lying_event, state, angle, speed, acceleration, stability, motion_magnitude, missing_frames, fall_confidence) ==
  [kind |-> kind,
   fall_detected |-> fall_event # None,
   fall_event |-> fall_event,
   lying_detected |-> lying_event # None,
   lying_event |-> lying_event,
   state |-> state,
   confidence |-> IF kind # "pose" THEN 0
                  ELSE IF fall_event # None THEN 950
                  ELSE IF lying_event # None THEN 850 ELSE 0,
   angle |-> angle,
   speed |-> speed,
   acceleration |-> acceleration,
   stability |-> stability,
   motion_magnitude |-> motion_magnitude,
   missing_frames |-> missing_frames,
   fall_confidence |-> fall_confidence]

\* the result_dict built before any processing (lines 745-753)
EarlyResult == Result("no_model", None, None, "unknown", None, 0, 0, 0, 0, 0, 0)

\* --------------------------------------------- MissingDetectionHandler

\* context check of the motion fallback without a pose (lines 1100-1106)
MissingContextValid(s, motion_magnitude) ==
  \/ s.was_falling_before_missing
  \/ s.last_valid_acceleration > 200
  \/ (Len(s.stability_scores) > 0 /\ s.stability_scores[Len(s.stability_scores)] < 600)
  \/ s.missing_frames >= 2
  \/ motion_magnitude > motion_threshold

\* a disappearance fallback that asks for nothing but the cooldown
DisappearanceFallback_cooldown_only(s, current_time) == CooldownElapsed(s, current_time)

\* condition of the pose-based disappearance fallback (lines 1135-1139)
DisappearanceFallback(s, current_time) ==
  /\ s.was_falling_before_missing
  /\ s.missing_frames <= 15
  /\ s.last_valid_speed * 10 > vertical_speed_threshold * 5
  /\ s.last_valid_speed > 0
  /\ CooldownElapsed(s, current_time)

\* the short-gap test with a strict comparison
WithinShortGap_strict(s) == s.missing_frames < s.max_missing_frames

\* self.missing_frames <= self.max_missing_frames (line 1164)
WithinShortGap(s) == s.missing_frames <= s.max_missing_frames

\* a long-gap reset that leaves fall_confirmed as it is
LongGapReset_keeps_confirmed(s) ==
  [s EXCEPT !.current_state = "unknown",
            !.fall_start_time = None,
            !.was_falling_before_missing = FALSE]

\* the reset of a gap that lasted too long (lines 1193-1196)
LongGapReset(s) ==
  [s EXCEPT !.current_state = "unknown",
            !.fall_start_time = None,
            !.fall_confirmed = FALSE,
            !.was_falling_before_missing = FALSE]

\* what the long-gap branch returns as its fall event (lines 1201-1203)
LongGapEvent(fall_event) == None

\* _handle_missing_detection(current_time, frame); the caller has already
\* counted the frame in missing_frames
handle_missing_detection(s, current_time, img) ==
  LET md == detect_motion_magnitude(s.prev_frame, img)
      am == analyze_motion_pattern(s.frame_diff_history, md.mag)
      s1 == IF s.use_motion_fallback
            THEN [s EXCEPT !.prev_frame = md.prev_frame,
                           !.frame_diff_history = am.frame_diff_history]
            ELSE s
      motion_magnitude == IF s.use_motion_fallback THEN md.mag ELSE 0
      motion_fall_detected == s.use_motion_fallback /\ am.spike
      motion_fires ==
        /\ motion_fall_detected
        /\ CooldownElapsed(s1, current_time)
        /\ (MissingContextValid(s1, motion_magnitude)
            \/ motion_magnitude * 10 > motion_threshold * 8)
      ev1 == IF motion_fires
             THEN Some(FallEvent(current_time, 700 + (motion_magnitude * 200) \div 1000,
                                 s1.current_state, SinceFallStart(s1, current_time),
                                 "motion_missing"))
             ELSE None
      s2 == IF motion_fires THEN Confirm(s1, current_time) ELSE s1
      fallback_fires == ev1 = None /\ DisappearanceFallback(s2, current_time)
      ev2 == IF fallback_fires
             THEN Some(FallEvent(current_time, 850 - (s2.missing_frames * 300) \div 15,
                                 s2.current_state, SinceFallStart(s2, current_time),
                                 "disappearance"))
             ELSE ev1
      s3 == IF fallback_fires THEN Confirm(s2, current_time) ELSE s2
  IN IF WithinShortGap(s3)
     THEN [s |-> s3,
           r |-> Result("missing", ev2, None, s3.current_state, s3.last_valid_angle,
                        s3.last_valid_speed, 0, 0, motion_magnitude, s3.missing_frames, 0)]
     ELSE [s |-> LongGapReset(s3),
           r |-> Result("missing", LongGapEvent(ev2), None, "unknown", None, 0, 0, 0,
                        motion_magnitude, s3.missing_frames, 0)]

\* ------------------------------------------------------------ EventGate

\* a was-falling flag raised by the first Falling frame already
WasFalling_first_frame(s, new_state, frames_in_falling_state) ==
  IF new_state = "falling" /\ frames_in_falling_state >= 1 THEN TRUE
  ELSE IF s.fall_start_time # None /\ new_state # "standing" THEN TRUE
  ELSE FALSE

\* was_falling_before_missing after a pose frame (lines 845-850)
WasFalling(s, new_state, frames_in_falling_state) ==
  IF new_state = "falling" /\ frames_in_falling_state >= 2 THEN TRUE
  ELSE IF s.fall_start_time # None /\ new_state # "standing" THEN TRUE
  ELSE FALSE

\* re-arming on every posture that is neither Falling nor Lying
Rearms_unknown(new_state) == new_state \in {"standing", "sitting", "unknown"}

\* the postures that re-arm the detector (line 912)
Rearms(new_state) == new_state \in {"standing", "sitting"}

\* a fall logic that waits for the second consecutive Falling frame
fall_logic_after_two_frames(s, current_time, new_state, previous_state) ==
  IF new_state = "falling"
  THEN LET s1 == IF s.fall_start_time = None
                 THEN [s EXCEPT !.fall_start_time = Some(current_time)] ELSE s
           fall_duration == current_time - Val(s1.fall_start_time)
       IN IF /\ ~s1.fall_confirmed /\ CooldownElapsed(s1, current_time)
             /\ s1.frames_in_falling_state >= 2
          THEN [s |-> Confirm(s1, current_time),
                ev |-> Some(FallEvent(current_time, 900, previous_state, fall_duration,
                                      "falling_state"))]
          ELSE [s |-> s1, ev |-> None]
  ELSE IF new_state = "lying" /\ previous_state = "falling"
  THEN IF ~s.fall_confirmed /\ CooldownElapsed(s, current_time)
       THEN [s |-> Confirm(s, current_time),
             ev |-> Some(FallEvent(current_time, 950, previous_state,
                                   SinceFallStart(s, current_time), "falling_to_lying"))]
       ELSE [s |-> s, ev |-> None]
  ELSE IF Rearms(new_state)
  THEN [s |-> [s EXCEPT !.fall_start_time = None, !.fall_confirmed = FALSE], ev |-> None]
  ELSE [s |-> s, ev |-> None]

\* fall detection logic of a pose frame (lines 857-914): <<session, event>>
fall_logic(s, current_time, new_state, previous_state) ==
  IF new_state = "falling"
  THEN LET s1 == IF s.fall_start_time = None
                 THEN [s EXCEPT !.fall_start_time = Some(current_time)] ELSE s
           fall_duration == current_time - Val(s1.fall_start_time)
       IN IF ~s1.fall_confirmed /\ CooldownElapsed(s1, current_time)
          THEN [s |-> Confirm(s1, current_time),
                ev |-> Some(FallEvent(current_time, 900, previous_state, fall_duration,
                                      "falling_state"))]
          ELSE [s |-> s1, ev |-> None]
  ELSE IF new_state = "lying" /\ previous_state = "falling"
  THEN IF ~s.fall_confirmed /\ CooldownElapsed(s, current_time)
       THEN [s |-> Confirm(s, current_time),
             ev |-> Some(FallEvent(current_time, 950, previous_state,
                                   SinceFallStart(s, current_time), "falling_to_lying"))]
       ELSE [s |-> s, ev |-> None]
  ELSE IF Rearms(new_state)
  THEN [s |-> [s EXCEPT !.fall_start_time = None, !.fall_confirmed = FALSE], ev |-> None]
  ELSE [s |-> s, ev |-> None]

\* a lying cooldown test that any later frame passes
LyingCooldownElapsed_any(s, current_time) ==
  current_time - s.last_lying_alert_time >= 0

\* current_time - self.last_lying_alert_time >= self.lying_cooldown (line 930)
LyingCooldownElapsed(s, current_time) ==
  current_time - s.last_lying_alert_time >= s.lying_cooldown

\* lying detection of a pose frame (lines 916-952): <<session, event>>
lying_logic(s, current_time, new_state, previous_state) ==
  IF new_state = "lying"
  THEN LET s1 == IF s.lying_start_time = None
                 THEN [s EXCEPT !.lying_start_time = Some(current_time)] ELSE s
           lying_duration == current_time - Val(s1.lying_start_time)
       IN IF lying_duration >= s1.lying_alert_threshold
             /\ LyingCooldownElapsed(s1, current_time)
          THEN [s |-> [s1 EXCEPT !.last_lying_alert_time = current_time],
                ev |-> Some(FallEvent(current_time, 850, previous_state, lying_duration,
                                      "lying"))]
          ELSE [s |-> s1, ev |-> None]
  ELSE [s |-> [s EXCEPT !.lying_start_time = None], ev |-> None]

\* context check of the motion fallback with a pose (lines 971-976)
PoseContextValid(s, new_state, acceleration, stability, vertical_speed) ==
  \/ new_state = "falling"
  \/ s.was_falling_before_missing
  \/ acceleration > 300
  \/ (stability < 400 /\ vertical_speed > 50)

\* motion-based fall of a pose frame (lines 954-1002): <<session, event>>
motion_logic(s, current_time, fall_event, motion_magnitude, new_state, previous_state, acceleration, stability, vertical_speed) ==
  IF fall_event = None /\ s.use_motion_fallback /\ motion_magnitude > 0
  THEN LET am == analyze_motion_pattern(s.frame_diff_history, motion_magnitude)
           s1 == [s EXCEPT !.frame_diff_history = am.frame_diff_history]
       IN IF /\ am.spike
             /\ CooldownElapsed(s1, current_time)
             /\ (PoseContextValid(s1, new_state, acceleration, stability, vertical_speed)
                 \/ motion_magnitude * 10 > motion_threshold * 15)
          THEN [s |-> Confirm(s1, current_time),
                ev |-> Some(FallEvent(current_time, 750 + (motion_magnitude * 150) \div 1000,
                                      previous_state, SinceFallStart(s1, current_time),
                                      "motion_pose"))]
          ELSE [s |-> s1, ev |-> fall_event]
  ELSE [s |-> s, ev |-> fall_event]

\* process_frame from the posture decision on (lines 828-1042), given the
\* metrics of the frame
gate_frame(s, current_time, p, motion_magnitude, center, angle, vertical_speed, acceleration, stability) ==
  LET center_y == IF center # None THEN Some(Val(center)[2]) ELSE None
      new_state == determine_pose_state(angle, vertical_speed, acceleration, stability,
                                        p, center_y, frame_height)
      previous_state == s.current_state
      fifs == IF new_state = "falling" THEN s.frames_in_falling_state + 1 ELSE 0
      s1 == [s EXCEPT !.frames_in_falling_state = fifs,
                      !.was_falling_before_missing = WasFalling(s, new_state, fifs)]
      fl == fall_logic(s1, current_time, new_state, previous_state)
      ll == lying_logic(fl.s, current_time, new_state, previous_state)
      ml == motion_logic(ll.s, current_time, fl.ev, motion_magnitude, new_state,
                         previous_state, acceleration, stability, vertical_speed)
      fc == IF center # None /\ angle # None
            THEN calculate_fall_confidence(angle, vertical_speed, acceleration, stability,
                   Some(IF frame_height > 0 THEN (Val(center_y) * 1000) \div frame_height
                        ELSE 0))
            ELSE 0
  IN [s |-> [ml.s EXCEPT !.current_state = new_state],
      r |-> Result("pose", ml.ev, ll.ev, new_state, angle, vertical_speed, acceleration,
                   stability, motion_magnitude, 0, fc)]

\* a pose frame that leaves the missing-frame counter as it is
track_centers_keeps_missing(s, current_time, center, angle) ==
  [s EXCEPT !.last_valid_center = IF center # None THEN center ELSE @,
            !.last_valid_angle = IF angle # None THEN angle ELSE @,
            !.center_history = AppendMax(@, center, history_size),
            !.angle_history = AppendMax(@, angle, history_size),
            !.timestamp_history = AppendMax(@, current_time, history_size)]

\* the histories of a pose frame before the speed is measured (lines 795-811)
track_centers(s, current_time, center, angle) ==
  [s EXCEPT !.missing_frames = 0,
            !.last_valid_center = IF center # None THEN center ELSE @,
            !.last_valid_angle = IF angle # None THEN angle ELSE @,
            !.center_history = AppendMax(@, center, history_size),
            !.angle_history = AppendMax(@, angle, history_size),
            !.timestamp_history = AppendMax(@, current_time, history_size)]

\* what process_frame does with the measured speed (lines 816-826)
track_rates(s1, current_time, p, center, angle, vertical_speed) ==
  LET s2 == [s1 EXCEPT !.velocity_history = AppendMax(@, vertical_speed, history_size),
                       !.last_valid_speed = vertical_speed]
      acceleration == calculate_acceleration(s2.velocity_history, s2.timestamp_history,
                                             vertical_speed, current_time)
      s3 == [s2 EXCEPT !.acceleration_history =
                          AppendMax(@, acceleration, acceleration_history_size),
                       !.last_valid_acceleration = acceleration]
      stability == calculate_stability_score(p, s3.center_history)
  IN [s |-> [s3 EXCEPT !.stability_scores = AppendMax(@, stability, history_size)],
      center |-> center, angle |-> angle, vertical_speed |-> vertical_speed,
      acceleration |-> acceleration, stability |-> stability]

\* process_frame for a frame with keypoints, up to the metrics (lines 795-826)
track_frame(s, current_time, p) ==
  LET center == get_body_center(p)
      angle == get_body_angle(p)
      s1 == track_centers(s, current_time, center, angle)
      vertical_speed == calculate_vertical_speed(s1.center_history, s1.timestamp_history,
                                                 frame_height)
  IN track_rates(s1, current_time, p, center, angle, vertical_speed)

\* a process_frame that measures the motion before it looks for the model
process_frame_measures_first(s, current_time, p, img) ==
  LET md == detect_motion_magnitude(s.prev_frame, img)
      motion_magnitude == IF s.use_motion_fallback THEN md.mag ELSE 0
      s1 == IF s.use_motion_fallback
            THEN [s EXCEPT !.prev_frame = md.prev_frame,
                           !.frame_diff_history =
                              AppendMax(@, motion_magnitude, frame_diff_history_size)]
            ELSE s
  IN IF ~s.model THEN [s |-> s1, r |-> EarlyResult]
     ELSE IF ~p.detected
     THEN handle_missing_detection([s1 EXCEPT !.missing_frames = @ + 1], current_time, img)
     ELSE LET tr == track_frame(s1, current_time, p)
          IN gate_frame(tr.s, current_time, p, motion_magnitude, tr.center, tr.angle,
                        tr.vertical_speed, tr.acceleration, tr.stability)

\* process_frame(frame) read at clock value current_time; p is what the
\* pose estimator returns for the frame and img the scene it shows
process_frame(s, current_time, p, img) ==
  IF ~s.model THEN [s |-> s, r |-> EarlyResult]
  ELSE
    LET md == detect_motion_magnitude(s.prev_frame, img)
        motion_magnitude == IF s.use_motion_fallback THEN md.mag ELSE 0
        s1 == IF s.use_motion_fallback
              THEN [s EXCEPT !.prev_frame = md.prev_frame,
                             !.frame_diff_history =
                                AppendMax(@, motion_magnitude, frame_diff_history_size)]
              ELSE s
    IN IF ~p.detected
       THEN handle_missing_detection([s1 EXCEPT !.missing_frames = @ + 1], current_time, img)
       ELSE LET tr == track_frame(s1, current_time, p)
            IN gate_frame(tr.s, current_time, p, motion_magnitude, tr.center, tr.angle,
                          tr.vertical_speed, tr.acceleration, tr.stability)

\* ------------------------------------------------------ state machine

VARIABLES
  det,           \* the detector session (the fields of YOLOFallDetector)
  now,           \* the last reading of time.time()
  op,            \* the last operation: "init", "pose", "nopose", "reset"
  inp,           \* its input
  res,           \* the dictionary the last process_frame call returned
  pre,           \* the session as it was before the last operation
  nframes,       \* process_frame calls so far
  fall_log,      \* timestamps of the FallEvents returned so far
  episode_open,  \* a FallEvent was returned and nothing has ended its episode
  held,          \* posture left by the last pose frame (or construction/reset)
  gap,           \* consecutive no-pose frames since then
  fresh,         \* a session constructed at the latest reset() (or at Init)
  fres,          \* what that session returned for the last frame
  nresets,       \* reset() calls so far
  hyst,          \* pose frames so far: were all of them quiet, how many crossed
                 \* the confidence threshold while quiet, how many came after
  lying_log,     \* timestamps of the LyingEvents returned so far
  lying_run,     \* time of the first Lying pose frame since the posture was
                 \* last something else (None while it is not Lying)
  srv            \* the camera server around the session: its frame thread, the
                 \* stats dictionary, the frame lock, what a reader last got

vars == <<det, now, op, inp, res, pre, nframes, fall_log, episode_open, held, gap,
          fresh, fres, nresets, hyst, lying_log, lying_run, srv>>

NoInput == [dt |-> 0, pose |-> "none", img |-> "none"]

\* the stats dictionary as far as the session feeds it (camera_server.py,
\* lines 58-64); raw marks a state entry that still holds the enum member
NoStats == [state |-> [raw |-> FALSE, value |-> "unknown"], falls_detected |-> 0]

\* the server when main() has started the frame thread (lines 37-64, 912-914)
ServerStart ==
  [pc |-> "idle",                 \* where the frame thread is in its loop
   callers |-> {},                \* threads inside a call on the session
   fall_detection_enabled |-> FALSE,
   stats |-> NoStats,
   frame_lock |-> "free",
   current_frame |-> 0,           \* number of the frame in current_frame
   published |-> NoStats,         \* stats as the last finished frame left them
   seen |-> NoStats,              \* what the last /api/stats reader got
   seen_choices |-> {NoStats},    \* the consistent records at that moment
   seen_pc |-> "idle",            \* where the frame thread was at that moment
   snapshot_mid_write |-> FALSE]  \* /api/snapshot copied a frame being written

\* the state after YOLOFallDetector(config) returned `session`
Constructed(session) ==
  /\ det = session
  /\ now = T0
  /\ op = "init"
  /\ res = EarlyResult
  /\ pre = session
  /\ nframes = 0
  /\ fall_log = <<>>
  /\ episode_open = FALSE
  /\ held = "unknown"
  /\ gap = 0
  /\ fresh = session
  /\ fres = EarlyResult
  /\ nresets = 0
  /\ hyst = [calm |-> TRUE, crossed |-> 0, after |-> 0]
  /\ lying_log = <<>>
  /\ lying_run = None
  /\ srv = ServerStart

Init == Constructed(NewSession) /\ inp = NoInput

\* what ends the episode of a fall: a pose frame classified Standing or
\* Sitting, a gap longer than max_missing_frames, or reset()
EndsEpisode(o, r) ==
  \/ o = "reset"
  \/ (o = "pose" /\ r.state \in {"standing", "sitting"})
  \/ (o = "nopose" /\ r.missing_frames > max_missing_frames)

\* the fall confidence _determine_pose_state computes for a pose frame
StateConfidence(p, r) ==
  calculate_fall_confidence(r.angle, r.speed, r.acceleration, r.stability,
    NormalizedY(IF get_body_center(p) # None THEN Some(p.cy) ELSE None, frame_height))

\* a frame that does not qualify as Falling: confidence at most 0.6, or
\* downward speed at most 30% of its threshold with stability at least 0.3
QuietFrame(fc, r) ==
  fc <= 600000 \/ (r.speed * 10 <= vertical_speed_threshold * 3 /\ r.stability >= 300)

HystAfter(h, p, r) ==
  LET fc == StateConfidence(p, r)
  IN [calm |-> h.calm /\ QuietFrame(fc, r),
      crossed |-> h.crossed + (IF fc > 600000 /\ QuietFrame(fc, r) THEN 1 ELSE 0),
      after |-> IF h.crossed > 0 THEN h.after + 1 ELSE 0]

\* the bookkeeping of one process_frame call that returned `out` at time t
Observe(t, dt, p, img, out) ==
  LET o == IF p.detected THEN "pose" ELSE "nopose"
  IN /\ det' = out.s
     /\ now' = t
     /\ op' = o
     /\ inp' = [dt |-> dt, pose |-> p.name, img |-> img]
     /\ res' = out.r
     /\ pre' = det
     /\ nframes' = nframes + 1
     /\ fall_log' = IF out.r.fall_event # None THEN Append(fall_log, t) ELSE fall_log
     /\ episode_open' = IF out.r.fall_event # None THEN TRUE
                        ELSE IF EndsEpisode(o, out.r) THEN FALSE
                        ELSE episode_open
     /\ held' = IF p.detected THEN out.s.current_state ELSE held
     /\ gap' = IF p.detected THEN 0 ELSE gap + 1
     /\ hyst' = IF p.detected THEN HystAfter(hyst, p, out.r) ELSE hyst
     /\ lying_log' = IF out.r.lying_event # None THEN Append(lying_log, t) ELSE lying_log
     /\ lying_run' = IF out.r.state # "lying" THEN None
                     ELSE IF p.detected /\ lying_run = None THEN Some(t)
                     ELSE lying_run
     /\ UNCHANGED nresets

\* one process_frame call, dt seconds after the previous operation; with
\* twin the session constructed at the latest reset() is fed the same frame
Step(dt, p, img, twin) ==
  /\ nframes < MaxFrames
  /\ UNCHANGED srv
  /\ now + dt <= T0 + MaxSpan
  /\ \E out \in {process_frame(det, now + dt, p, img)} :
       /\ Observe(now + dt, dt, p, img, out)
       /\ IF twin
          THEN \E fout \in {process_frame(fresh, now + dt, p, img)} :
                 fresh' = fout.s /\ fres' = fout.r
          ELSE UNCHANGED <<fresh, fres>>

\* reset()
ResetCall ==
  /\ nresets < MaxResets
  /\ op # "reset"
  /\ det' = reset(det)
  /\ op' = "reset"
  /\ inp' = NoInput
  /\ pre' = det
  /\ episode_open' = FALSE
  /\ held' = "unknown"
  /\ gap' = 0
  /\ nresets' = nresets + 1
  /\ hyst' = [calm |-> TRUE, crossed |-> 0, after |-> 0]
  /\ lying_run' = None
  /\ UNCHANGED <<now, res, nframes, fall_log, fres, lying_log, srv>>

\* process_frame on a frame for which the estimator delivers keypoints
PoseFrame ==
  \E dt \in DtSet, p \in Poses, img \in Images : Step(dt, p, img, FALSE)

\* process_frame on a frame with no detection
NoPoseFrame ==
  \E dt \in DtSet, img \in Images : Step(dt, NoDetection, img, FALSE)

\* reset()
Reset == ResetCall /\ UNCHANGED fresh

Next == PoseFrame \/ NoPoseFrame \/ Reset

Spec == Init /\ [][Next]_vars

\* The same machine beside a twin: a session constructed when reset() is
\* called and fed every later frame as well.
TwinPoseFrame ==
  \E dt \in DtSet, p \in Poses, img \in Images : Step(dt, p, img, TRUE)

TwinNoPoseFrame ==
  \E dt \in DtSet, img \in Images : Step(dt, NoDetection, img, TRUE)

TwinReset == ResetCall /\ fresh' = NewSession

NextTwin == TwinPoseFrame \/ TwinNoPoseFrame \/ TwinReset

SpecTwin == Init /\ [][NextTwin]_vars

\* The posture decision and the event gate on their own (lines 828-1042 of
\* process_frame), applied to metrics drawn from the sets below instead of
\* the tracker's: a prone subject in a still scene, every frame with its own
\* trunk angle, vertical speed, acceleration and stability.
GateAngles == {20, 85}
GateSpeeds == {(vertical_speed_threshold * 3) \div 10, (vertical_speed_threshold * 3) \div 10 + 1}
GateAccelerations == {0, 2000}
GateStabilities == {299, 300}

GateFrame ==
  /\ nframes < MaxFrames
  /\ \E dt \in DtSet, a \in GateAngles, v \in GateSpeeds, acc \in GateAccelerations,
        st \in GateStabilities :
       /\ now + dt <= T0 + MaxSpan
       /\ \E out \in {gate_frame([det EXCEPT !.missing_frames = 0], now + dt, Prone, 0,
                                 get_body_center(Prone), Some(a), v, acc, st)} :
            Observe(now + dt, dt, Prone, "flatA", out)
       /\ UNCHANGED <<fresh, fres, srv>>

NextGate == GateFrame

SpecGate == Init /\ [][NextGate]_vars

\* The same machine on a slow clock: frames one second, one lying alert
\* threshold or one lying cooldown apart, an upright or a prone subject or
\* no detection, always in front of the same flat scene.
SlowDtSet == {1, lying_alert_threshold, lying_cooldown}
SlowPoses == {Upright, Prone}

SlowStep(dt, p) ==
  /\ nframes < MaxSlowFrames
  /\ now + dt <= T0 + MaxSlowSpan
  /\ \E out \in {process_frame(det, now + dt, p, "flatA")} :
       Observe(now + dt, dt, p, "flatA", out)
  /\ UNCHANGED <<fresh, fres, srv>>

SlowPoseFrame == \E dt \in SlowDtSet, p \in SlowPoses : SlowStep(dt, p)

SlowNoPoseFrame == \E dt \in SlowDtSet : SlowStep(dt, NoDetection)

NextSlow == SlowPoseFrame \/ SlowNoPoseFrame \/ Reset

SpecSlow == Init /\ [][NextSlow]_vars

\* The six-frame ramp of a fall, walked twice: the trunk angle goes from 10
\* to 85 degrees and the measured vertical speed from 0 to 0.4 frame heights
\* a second.  At camera rate the six frames share one clock second or
\* straddle the next, and the hips stay in one band of the frame; the run
\* fixes where the hips are and how far apart the feet stand.  The speed is
\* the ramp's (it stands for line 815); everything after it is the code's.
RampAngles == <<10, 25, 40, 55, 70, 85>>
RampSpeeds == <<0, 80, 160, 240, 320, 400>>
RampFrames == Len(RampAngles)
RampDtSet == {0, 1}
RampHips == {300, 500, 800}
RampStances == {"ramp_feet_together", "ramp_feet_apart"}

RampPose(k, cy, stance) ==
  LET body == IF RampAngles[k] > 50 THEN Prone ELSE Upright
  IN [body EXCEPT !.name = stance, !.cx = 500, !.cy = cy, !.trunk = RampAngles[k],
                  !.feet = IF stance = "ramp_feet_apart" THEN 200 ELSE 0]

ramp_frame(s, current_time, p, vertical_speed) ==
  LET md == detect_motion_magnitude(s.prev_frame, "flatA")
      s0 == [s EXCEPT !.prev_frame = md.prev_frame,
                      !.frame_diff_history = AppendMax(@, md.mag, frame_diff_history_size)]
      center == get_body_center(p)
      angle == get_body_angle(p)
      tr == track_rates(track_centers(s0, current_time, center, angle), current_time, p,
                        center, angle, vertical_speed)
  IN gate_frame(tr.s, current_time, p, md.mag, tr.center, tr.angle, tr.vertical_speed,
                tr.acceleration, tr.stability)

RampFrame ==
  /\ nframes < 2 * RampFrames
  /\ \E dt \in RampDtSet, cy \in RampHips, stance \in RampStances :
       /\ now + dt < T0 + cooldown_seconds
       /\ nframes > 0 => (cy = Val(det.last_valid_center)[2] /\ stance = inp.pose)
       /\ LET k == (nframes % RampFrames) + 1
              p == RampPose(k, cy, stance)
          IN \E out \in {ramp_frame(det, now + dt, p, RampSpeeds[k])} :
               Observe(now + dt, dt, p, "flatA", out)
       /\ UNCHANGED <<fresh, fres, srv>>

NextRamp == RampFrame

SpecRamp == Init /\ [][NextRamp]_vars

\* A subject lying still in front of a flat scene, seen by a detector with
\* the default max_missing_frames: LieFrames pose frames at camera rate,
\* then up to LieGap frames without a detection.
default_max_missing_frames == 10
LieDtSet == {0, 1}
LyingStill == [Prone EXCEPT !.name = "lying_still", !.trunk = 80]

LieStep(dt, p) ==
  /\ now + dt <= T0 + LieSpan
  /\ \E out \in {process_frame(det, now + dt, p, "flatA")} :
       Observe(now + dt, dt, p, "flatA", out)
  /\ UNCHANGED <<fresh, fres, srv>>

LiePoseFrame == nframes < LieFrames /\ \E dt \in LieDtSet : LieStep(dt, LyingStill)

LieNoPoseFrame ==
  /\ nframes >= LieFrames
  /\ nframes < LieFrames + LieGap
  /\ \E dt \in LieDtSet : LieStep(dt, NoDetection)

InitLie ==
  /\ Constructed([NewSession EXCEPT !.max_missing_frames = default_max_missing_frames])
  /\ inp = NoInput

NextLie == LiePoseFrame \/ LieNoPoseFrame

SpecLie == InitLie /\ [][NextLie]_vars

\* The posture vote on its own: a pose whose trunk angle, box ratio,
\* head-hip difference, leg angle and hip height each take one value from
\* every band of their factor (the box, the head and the ankles may also be
\* unavailable), classified once by _determine_pose_state for a subject at
\* rest (no speed, no acceleration, full stability: the Falling gate is shut).
VoteAngles == {20, 40, 60, 80}
VoteRatios == {500, 800, 1200, 2000}
VoteHeights == {0, 500}
VoteHeadHips == {10, 30, 80, 200}
VoteLegs == {10, 30, 50, 80}
VoteHips == {300, 650, 800}
VoteConfs == {0, 900}

VotePoses ==
  {[detected |-> TRUE, name |-> "vote", cx |-> 500, cy |-> cy, trunk |-> a, ratio |-> r,
    height |-> h, hh |-> d, leg |-> l, feet |-> 100,
    conf |-> [AllConf(900) EXCEPT !["head"] = ch, !["ankles"] = ca]] :
     a \in VoteAngles, r \in VoteRatios, h \in VoteHeights, d \in VoteHeadHips,
     l \in VoteLegs, cy \in VoteHips, ch \in VoteConfs, ca \in VoteConfs}

InitVote ==
  /\ Constructed(NewSession)
  /\ inp \in {[dt |-> 0, pose |-> p, img |-> "none"] : p \in VotePoses}

Classify ==
  /\ op = "init"
  /\ LET p == inp.pose
         center == get_body_center(p)
         new_state == determine_pose_state(get_body_angle(p), 0, 0, 1000, p,
                                           Some(Val(center)[2]), frame_height)
     IN /\ det' = [det EXCEPT !.current_state = new_state]
        /\ res' = [res EXCEPT !.kind = "pose", !.state = new_state]
  /\ op' = "vote"
  /\ pre' = det
  /\ UNCHANGED <<srv, now, inp, nframes, fall_log, episode_open, held, gap, fresh, fres,
                 nresets, hyst, lying_log, lying_run>>

NextVote == Classify

SpecVote == InitVote /\ [][NextVote]_vars

\* The same machine in front of the flat or the grained scene, the subject
\* upright or prone.
GrainImages == {"flatA", "grained"}
GrainPoses == {Upright, Prone}

GrainPoseFrame ==
  \E dt \in DtSet, p \in GrainPoses, img \in GrainImages : Step(dt, p, img, FALSE)

GrainNoPoseFrame ==
  \E dt \in DtSet, img \in GrainImages : Step(dt, NoDetection, img, FALSE)

NextGrain == GrainPoseFrame \/ GrainNoPoseFrame

SpecGrain == Init /\ [][NextGrain]_vars

\* The same machine fed by an estimator that now and then delivers the
\* truncated landmark array.
SoundPoses == {Upright, Prone}

SoundPoseFrame ==
  \E dt \in DtSet, p \in SoundPoses, img \in Images : Step(dt, p, img, FALSE)

MalformedPoseFrame == \E dt \in DtSet, img \in Images : Step(dt, Truncated, img, FALSE)

NextMalformed == SoundPoseFrame \/ MalformedPoseFrame \/ NoPoseFrame

SpecMalformed == Init /\ [][NextMalformed]_vars

\* Sessions constructed from every configuration that gives each duration
\* and the frame count either the value used above or -1, then fed sound
\* frames of a flat scene.
Configs ==
  [cooldown_seconds : {-1, cooldown_seconds},
   lying_alert_threshold : {-1, lying_alert_threshold},
   lying_cooldown : {-1, lying_cooldown},
   max_missing_frames : {-1, max_missing_frames}]

InitConfig == inp = NoInput /\ \E config \in Configs : Constructed(init(config))

ConfigPoseFrame == \E dt \in DtSet, p \in SoundPoses : Step(dt, p, "flatA", FALSE)

ConfigNoPoseFrame == \E dt \in DtSet : Step(dt, NoDetection, "flatA", FALSE)

NextConfig == ConfigPoseFrame \/ ConfigNoPoseFrame

SpecConfig == InitConfig /\ [][NextConfig]_vars

\* ------------------------------------------------------- camera server

\* The frame thread of camera_server.py (process_frames) one statement at a
\* time, beside the HTTP and WebSocket handlers, which run in threads of
\* their own and may take a step between any two of its statements.
Threads == {"frame", "http", "ws"}

SessionVars ==
  <<det, now, op, inp, res, pre, nframes, fall_log, episode_open, held, gap, fresh, fres,
    nresets, hyst, lying_log, lying_run>>

\* the frame thread finds fall detection switched off (line 216)
SkipDetector ==
  /\ srv.pc = "idle" /\ ~srv.fall_detection_enabled
  /\ srv' = [srv EXCEPT !.pc = "lock"]
  /\ UNCHANGED SessionVars

\* the frame thread enters fall_detector.process_frame (lines 216-217)
EnterDetector ==
  /\ srv.pc = "idle" /\ srv.fall_detection_enabled
  /\ nframes < MaxFrames
  /\ srv' = [srv EXCEPT !.pc = "detect", !.callers = @ \cup {"frame"}]
  /\ UNCHANGED SessionVars

\* process_frame returns its result to the frame thread (line 217)
ReturnDetector ==
  /\ srv.pc = "detect"
  /\ \E dt \in DtSet, p \in SoundPoses :
       /\ now + dt <= T0 + MaxSpan
       /\ \E out \in {process_frame(det, now + dt, p, "flatA")} :
            Observe(now + dt, dt, p, "flatA", out)
  /\ srv' = [srv EXCEPT !.pc = "state", !.callers = @ \ {"frame"}]
  /\ UNCHANGED <<fresh, fres>>

\* stats["state"] = result.get('state', 'unknown') (line 221): the enum member
StoreState ==
  /\ srv.pc = "state"
  /\ srv' = [srv EXCEPT !.pc = "value", !.stats.state = [raw |-> TRUE, value |-> res.state]]
  /\ UNCHANGED SessionVars

\* stats["state"] = stats["state"].value (lines 222-223)
ConvertState ==
  /\ srv.pc = "value"
  /\ srv' = [srv EXCEPT !.pc = "count", !.stats.state.raw = FALSE]
  /\ UNCHANGED SessionVars

\* stats["falls_detected"] += 1 on a frame with a fall (lines 225-226)
CountFall ==
  /\ srv.pc = "count"
  /\ LET counted == [srv.stats EXCEPT !.falls_detected =
                        IF res.fall_detected THEN @ + 1 ELSE @]
     IN srv' = [srv EXCEPT !.pc = "lock", !.stats = counted, !.published = counted]
  /\ UNCHANGED SessionVars

\* with frame_lock: (line 316)
LockFrame ==
  /\ srv.pc = "lock" /\ srv.frame_lock = "free"
  /\ srv' = [srv EXCEPT !.pc = "publish", !.frame_lock = "frame"]
  /\ UNCHANGED SessionVars

\* current_frame = display_frame.copy() and the release of the lock (line 317)
PublishFrame ==
  /\ srv.pc = "publish"
  /\ srv' = [srv EXCEPT !.pc = "idle", !.frame_lock = "free", !.current_frame = nframes]
  /\ UNCHANGED SessionVars

\* the statements of the frame thread that feed the stats and the frame buffer
FrameThread ==
  \/ SkipDetector \/ EnterDetector \/ ReturnDetector \/ StoreState \/ ConvertState
  \/ CountFall \/ LockFrame \/ PublishFrame

\* the records a reader may get without seeing half of an update: the one
\* the last finished frame left, and the one the frame in hand will leave
ConsistentStats ==
  {srv.published} \cup
  (IF srv.pc \in {"state", "value", "count"}
   THEN {[state |-> [raw |-> FALSE, value |-> res.state],
          falls_detected |-> srv.published.falls_detected
                             + (IF res.fall_detected THEN 1 ELSE 0)]}
   ELSE {})

\* GET /api/stats and /api/camera/status: jsonify(stats) (lines 446-470)
GetStats ==
  /\ srv' = [srv EXCEPT !.seen = srv.stats, !.seen_choices = ConsistentStats,
                        !.seen_pc = srv.pc]
  /\ UNCHANGED SessionVars

\* GET /api/snapshot: copies current_frame under frame_lock (lines 407-415)
Snapshot ==
  /\ srv.frame_lock = "free"
  /\ srv' = [srv EXCEPT !.snapshot_mid_write = (srv.pc = "publish")]
  /\ UNCHANGED SessionVars

\* a toggle handler that also calls into the session from its own thread
ToggleFall_enters_session ==
  /\ srv' = [srv EXCEPT !.fall_detection_enabled = ~@, !.callers = @ \cup {"ws"}]
  /\ UNCHANGED SessionVars

\* toggle_fall_detection / POST /api/settings (lines 425-443, 881-885)
ToggleFall ==
  /\ srv' = [srv EXCEPT !.fall_detection_enabled = ~@]
  /\ UNCHANGED SessionVars

NextServer == FrameThread \/ GetStats \/ Snapshot \/ ToggleFall

SpecServer == Init /\ [][NextServer]_vars

\* A long recording: one frame per second, the subject standing, sitting
\* down and lying in turn on a scene that changes every fifth frame, long
\* enough to fill every history; the pose estimator may miss the frames of
\* FillMisses, and reset() may be called between any two frames.
FillFrames == 33
FillMisses == {4, 17, 31}

FillPose(k) ==
  CASE k % 3 = 0 -> Upright
    [] k % 3 = 1 -> Seated
    [] OTHER -> Prone

FillImage(k) == IF k % 5 = 4 THEN "textured" ELSE "flatA"

FillStep(p) ==
  /\ nframes < FillFrames
  /\ \E out \in {process_frame(det, now + 1, p, FillImage(nframes))} :
       Observe(now + 1, 1, p, FillImage(nframes), out)
  /\ UNCHANGED <<fresh, fres, srv>>

FillPoseFrame == FillStep(FillPose(nframes))

FillNoPoseFrame == nframes \in FillMisses /\ FillStep(NoDetection)

NextFill == FillPoseFrame \/ FillNoPoseFrame \/ Reset

SpecFill == Init /\ [][NextFill]_vars

\* The scorer and the classifier on their own: _determine_pose_state and
\* _calculate_fall_confidence applied once to a trunk angle (or none), a
\* vertical speed, an acceleration, a stability and a hip height (or none)
\* drawn from both sides of every threshold the two functions test, for the
\* landmarks of an upright and of a prone subject.
ScoreAngles == {None, Some(20), Some(45), Some(61), Some(85), Some(120)}
ScoreSpeeds == {0 - vertical_speed_threshold, 0, (vertical_speed_threshold * 3) \div 10, (vertical_speed_threshold * 3) \div 10 + 1, vertical_speed_threshold, 2 * vertical_speed_threshold}
ScoreAccelerations == {0 - 1000, 0, 500, 501, 2000, 3000}
ScoreStabilities == {0, 299, 300, 1000}
ScoreHips == {None, Some(399), Some(400), Some(700), Some(701)}
ScorePoses == {Upright, Prone}

InitScore ==
  /\ Constructed(NewSession)
  /\ inp \in {[dt |-> 0, pose |-> p, img |-> "none", angle |-> a, speed |-> v,
                acceleration |-> acc, stability |-> st, center_y |-> cy] :
                 p \in ScorePoses, a \in ScoreAngles, v \in ScoreSpeeds,
                 acc \in ScoreAccelerations, st \in ScoreStabilities, cy \in ScoreHips}

Score ==
  /\ op = "init"
  /\ LET new_state == determine_pose_state(inp.angle, inp.speed, inp.acceleration,
                                           inp.stability, inp.pose, inp.center_y,
                                           frame_height)
         fall_confidence == calculate_fall_confidence(
                              inp.angle, inp.speed, inp.acceleration, inp.stability,
                              NormalizedY(inp.center_y, frame_height))
     IN /\ det' = [det EXCEPT !.current_state = new_state]
        /\ res' = [res EXCEPT !.kind = "pose", !.state = new_state,
                              !.fall_confidence = fall_confidence]
  /\ op' = "score"
  /\ pre' = det
  /\ UNCHANGED <<srv, now, inp, nframes, fall_log, episode_open, held, gap, fresh, fres,
                 nresets, hyst, lying_log, lying_run>>

NextScore == Score

SpecScore == InitScore /\ [][NextScore]_vars

\* A subject who drops and is lost: up to VanishPoseFrames frames one second
\* apart show the subject upright or prone in front of a still scene, then
\* the pose estimator delivers nothing for up to VanishFrames frames in all,
\* within the same second, a second or a cooldown apart.  The session is
\* configured with max_missing_frames = VanishMaxMissing, above the 15
\* frames the disappearance fallback looks back.
VanishMaxMissing == 17
VanishPoseFrames == 3
VanishFrames == 20
VanishSpan == 14
VanishDtSet == {0, 1, cooldown_seconds}
VanishPoses == {Upright, Prone}

VanishStep(dt, p) ==
  /\ nframes < VanishFrames
  /\ now + dt <= T0 + VanishSpan
  /\ \E out \in {process_frame(det, now + dt, p, "flatA")} :
       Observe(now + dt, dt, p, "flatA", out)
  /\ UNCHANGED <<fresh, fres, srv>>

VanishPoseFrame == nframes < VanishPoseFrames /\ \E p \in VanishPoses : VanishStep(1, p)

VanishNoPoseFrame == nframes >= 1 /\ \E dt \in VanishDtSet : VanishStep(dt, NoDetection)

InitVanish ==
  /\ Constructed([NewSession EXCEPT !.max_missing_frames = VanishMaxMissing])
  /\ inp = NoInput

NextVanish == VanishPoseFrame \/ VanishNoPoseFrame

SpecVanish == InitVanish /\ [][NextVanish]_vars

\* The classifier on landmarks that leave metrics out: a subject at rest
\* whose box, head and ankles may each be missing, with a trunk angle or
\* none and a hip height or none, classified once by _determine_pose_state.
MetricAngles == {None, Some(20), Some(40), Some(60), Some(80)}
MetricHips == {None, Some(300), Some(650), Some(800)}
MetricPoses == {p \in VotePoses : p.trunk = 20 /\ p.cy = 300}

InitMetric ==
  /\ Constructed(NewSession)
  /\ inp \in {[dt |-> 0, pose |-> p, img |-> "none", angle |-> a, speed |-> 0,
                acceleration |-> 0, stability |-> 1000, center_y |-> cy] :
                 p \in MetricPoses, a \in MetricAngles, cy \in MetricHips}

SpecMetric == InitMetric /\ [][NextScore]_vars

\* The same machine for a session constructed where the pose estimator
\* package is missing: __init__ leaves model = None (lines 109-111).
InitNoModel ==
  /\ Constructed([NewSession EXCEPT !.model = FALSE])
  /\ inp = NoInput

SpecNoModel == InitNoModel /\ [][Next]_vars

\* A subject upright or prone who is lost for longer than max_missing_frames
\* and found again: up to RelapseFrames frames, within the same second or a
\* second apart, with reset() in between.
RelapseFrames == 6
RelapseDtSet == {0, 1}

RelapseStep(dt, p) ==
  /\ nframes < RelapseFrames
  /\ \E out \in {process_frame(det, now + dt, p, "flatA")} :
       Observe(now + dt, dt, p, "flatA", out)
  /\ UNCHANGED <<fresh, fres, srv>>

RelapsePoseFrame == \E dt \in RelapseDtSet, p \in SoundPoses : RelapseStep(dt, p)

RelapseNoPoseFrame == \E dt \in RelapseDtSet : RelapseStep(dt, NoDetection)

NextRelapse == RelapsePoseFrame \/ RelapseNoPoseFrame \/ Reset

SpecRelapse == Init /\ [][NextRelapse]_vars

\* --------------------------------------------------------- properties

FrameOp == op \in {"pose", "nopose"}

C2_CooldownStartsAtEmission ==
  FrameOp => ((det.last_fall_time # pre.last_fall_time) <=> res.fall_detected)

\* C3: once a FallEvent has been emitted, no pose frame classified Falling,
\* Lying or Unknown and no no-pose frame of a gap of at most
\* max_missing_frames emits another one before a pose frame has been
\* classified Standing or Sitting.
C3_OneAlertPerFall ==
  [][(episode_open /\ op' \in {"pose", "nopose"} /\ ~EndsEpisode(op', res'))
       => ~res'.fall_detected]_vars

Cleared == FrameOp /\ pre.fall_confirmed /\ ~det.fall_confirmed

\* C4 as stated: process_frame clears fall_confirmed only in a pose frame
\* classified Standing or Sitting.
C4_RearmOnlyUpright ==
  Cleared => (op = "pose" /\ res.state \in {"standing", "sitting"})

\* C4: process_frame clears fall_confirmed only in a pose frame classified
\* Standing or Sitting or in a no-pose frame whose missing_frames count
\* exceeds max_missing_frames; no pose frame left Unknown, Falling or Lying
\* and no no-pose frame of a shorter gap clears it.
C4_RearmUprightOrLongGap ==
  Cleared => \/ (op = "pose" /\ res.state \in {"standing", "sitting"})
             \/ (op = "nopose" /\ det.missing_frames > max_missing_frames)

C4_ClearedByLongGap == Cleared /\ op = "nopose"

\* C5: after a pose frame that left posture P, each of the first
\* max_missing_frames consecutive no-pose frames returns P and keeps
\* current_state = P, and every later one returns Unknown and leaves
\* current_state = Unknown.
C5_MissingEscalation ==
  op = "nopose" =>
    /\ gap = det.missing_frames
    /\ gap <= max_missing_frames => (res.state = held /\ det.current_state = held)
    /\ gap > max_missing_frames =>
         (res.state = "unknown" /\ det.current_state = "unknown")

C5_BoundaryCrossed ==
  /\ op = "nopose"
  /\ gap = max_missing_frames + 1
  /\ held \in {"standing", "sitting", "lying", "falling"}
  /\ pre.current_state = held

\* C6: a no-pose frame with missing_frames > max_missing_frames returns
\* posture Unknown and no fall event and leaves current_state Unknown,
\* fall_start_time unset, fall_confirmed and was_falling_before_missing
\* false; every no-pose frame counts one more missing frame, so the
\* condition lasts until a pose frame arrives.
C6_LongGapReset ==
  op = "nopose" =>
    /\ det.missing_frames = pre.missing_frames + 1
    /\ det.missing_frames > max_missing_frames =>
         /\ res.state = "unknown"
         /\ ~res.fall_detected
         /\ res.fall_event = None
         /\ det.current_state = "unknown"
         /\ det.fall_start_time = None
         /\ ~det.fall_confirmed
         /\ ~det.was_falling_before_missing

C6_LongGapClears ==
  /\ op = "nopose"
  /\ det.missing_frames > max_missing_frames
  /\ pre.fall_confirmed
  /\ pre.current_state # "unknown"

ZeroConfFrame == op = "pose" /\ inp.pose = ZeroConf.name

\* C7: a frame whose landmarks all have confidence 0 reports posture
\* Unknown and returns neither a FallEvent nor a LyingEvent, whatever the
\* motion magnitude and the session state before it.
C7_ZeroConfNoEvent ==
  ZeroConfFrame =>
    res.state = "unknown" /\ ~res.fall_detected /\ ~res.lying_detected

\* C8: as long as every pose frame either has fall confidence at most 0.6
\* or has downward speed at most 30% of the vertical-speed threshold and
\* stability at least 0.3, no frame is classified Falling, no fall start is
\* recorded and no FallEvent is emitted, however many frames exceed 0.6.
C8_ConjunctionGate ==
  hyst.calm =>
    /\ fall_log = <<>>
    /\ res.state # "falling"
    /\ det.fall_start_time = None
    /\ det.frames_in_falling_state = 0

C8_CrossedAndWentOn ==
  /\ hyst.calm
  /\ hyst.crossed = 1
  /\ hyst.after >= 1
  /\ res.fall_confidence <= 600000

SameOutput(r1, r2) ==
  /\ r1.state = r2.state
  /\ r1.fall_event = r2.fall_event
  /\ r1.lying_event = r2.lying_event

\* C9: after reset() every process_frame call returns the posture, the
\* fall event and the lying event that a newly constructed session fed the
\* same frames since the reset returns.
C9_ResetEqualsFresh ==
  (nresets > 0 /\ FrameOp) => SameOutput(res, fres)

\* C10: right after reset() every rolling history is empty, no previous
\* frame is stored and every state flag and tracker has the value a newly
\* constructed session has.
C10_ResetClearsAll ==
  op = "reset" =>
    /\ det.center_history = <<>>
    /\ det.angle_history = <<>>
    /\ det.timestamp_history = <<>>
    /\ det.velocity_history = <<>>
    /\ det.acceleration_history = <<>>
    /\ det.stability_scores = <<>>
    /\ det.frame_diff_history = <<>>
    /\ det.prev_frame = None
    /\ \A f \in {"current_state", "missing_frames", "last_valid_center",
                 "last_valid_angle", "last_valid_speed", "last_valid_acceleration",
                 "was_falling_before_missing", "frames_in_falling_state",
                 "fall_start_time", "fall_confirmed", "lying_start_time"} :
         det[f] = NewSession[f]

\* C11: whenever the current posture is not Lying, lying_start_time is
\* unset; so a LyingEvent comes only after lying_alert_threshold seconds of
\* posture continuously Lying and its duration starts no earlier than the
\* first Lying frame since the posture was last something else.
C11_LyingClockResets ==
  /\ det.current_state # "lying" => det.lying_start_time = None
  /\ res.lying_detected =>
       /\ lying_run # None
       /\ now - Val(lying_run) >= lying_alert_threshold
       /\ Val(res.lying_event).duration <= now - Val(lying_run)

\* C12: any two LyingEvents one session returns have timestamps at least
\* lying_cooldown apart, whether the subject stays Lying or leaves and
\* re-enters Lying.
C12_LyingCooldown ==
  \A i, j \in 1..Len(lying_log) :
    i < j => lying_log[j] - lying_log[i] >= lying_cooldown

C12_TwoLyingEvents ==
  /\ Len(lying_log) >= 2
  /\ res.lying_detected
  /\ pre.current_state = "lying"

\* the LyingEvents returned before the last frame
EarlierLyingEvents ==
  IF res.lying_detected THEN SubSeq(lying_log, 1, Len(lying_log) - 1) ELSE lying_log

\* C13: a pose frame classified Lying returns a LyingEvent exactly when the
\* posture has been Lying for lying_alert_threshold seconds, counted from
\* the first Lying pose frame of the run, and lying_cooldown seconds have
\* passed since the last LyingEvent; its duration is the time since the
\* run began.
C13_LyingAlertResponse ==
  (op = "pose" /\ res.state = "lying") =>
    LET run == now - Val(lying_run)
        earlier == EarlierLyingEvents
        due == /\ run >= lying_alert_threshold
               /\ (earlier = <<>> \/ now - earlier[Len(earlier)] >= lying_cooldown)
    IN /\ due => (res.lying_detected /\ Val(res.lying_event).duration = run)
       /\ ~due => ~res.lying_detected

\* lying_start_time as the lying logic alone leaves it after the last frame
LyingStartByPosture ==
  IF op = "nopose" THEN pre.lying_start_time
  ELSE IF res.state # "lying" THEN None
  ELSE IF pre.lying_start_time = None THEN Some(now)
  ELSE pre.lying_start_time

\* C14: a frame that returns a FallEvent leaves lying_start_time and
\* last_lying_alert_time as the lying logic alone sets them, a frame that
\* returns a LyingEvent leaves fall_start_time alone and changes
\* last_fall_time and fall_confirmed only with a FallEvent of its own, and
\* a lying alert that is due is returned whether or not the frame returns a
\* FallEvent.
C14_IndependentCooldowns ==
  FrameOp =>
    /\ res.fall_detected =>
         /\ det.lying_start_time = LyingStartByPosture
         /\ det.last_lying_alert_time =
              IF res.lying_detected THEN now ELSE pre.last_lying_alert_time
    /\ res.lying_detected =>
         /\ det.fall_start_time = pre.fall_start_time
         /\ res.fall_detected \/ (det.last_fall_time = pre.last_fall_time
                                  /\ det.fall_confirmed = pre.fall_confirmed)
    /\ (/\ op = "pose"
        /\ res.state = "lying"
        /\ now - Val(LyingStartByPosture) >= lying_alert_threshold
        /\ now - pre.last_lying_alert_time >= lying_cooldown) => res.lying_detected

C14_BothInOneFrame == FrameOp /\ res.fall_detected /\ res.lying_detected

\* C15: on a fresh session the six-frame ramp (trunk angle 10 to 85 degrees,
\* vertical speed 0 to 0.4 against a threshold of 0.3) returns exactly one
\* FallEvent, its confidence above 0.6, and the same ramp again inside the
\* cooldown returns no further one.
C15_RampOneEvent ==
  /\ nframes >= RampFrames => Len(fall_log) = 1
  /\ Len(fall_log) <= 1
  /\ res.fall_detected => Val(res.fall_event).confidence > 600

\* C16: after 20 pose frames classified Lying (trunk angle 80 degrees, low
\* in the frame, negligible speed), each of 3 consecutive no-pose frames
\* with motion magnitude 0 returns Lying, keeps the posture and returns no
\* FallEvent.
C16_LyingGapHolds ==
  /\ op = "pose" => res.state = "lying"
  /\ (op = "nopose" /\ nframes - gap >= 20 /\ gap <= 3 /\ res.motion_magnitude = 0) =>
       /\ res.state = "lying"
       /\ det.current_state = "lying"
       /\ ~res.fall_detected
       /\ res.fall_event = None

C16_ThirdMissingFrame ==
  /\ op = "nopose" /\ gap = 3 /\ nframes - gap >= 20
  /\ res.motion_magnitude = 0 /\ res.state = "lying" /\ res.missing_frames = 3
  /\ pre.current_state = "lying" /\ Val(pre.last_valid_angle) = 80

\* the vote totals <<lying, sitting, standing>> of the pose just classified
VoteTotals ==
  Votes(inp.pose.trunk, get_body_bbox_ratio(inp.pose), get_head_hip_vertical_diff(inp.pose),
        get_leg_angle(inp.pose), NormalizedY(Some(inp.pose.cy), frame_height))

\* C17: with the Falling gate shut, the posture is Lying only if the lying
\* total is strictly greater than both others, Sitting only if the sitting
\* total is strictly greater than both others, and Standing whenever two
\* or three totals tie for the maximum.
C17_StrictPlurality ==
  op = "vote" =>
    LET lying_score == VoteTotals[1]
        sitting_score == VoteTotals[2]
        standing_score == VoteTotals[3]
        max_score == Max(lying_score, Max(sitting_score, standing_score))
        tied == Cardinality({k \in 1..3 : VoteTotals[k] = max_score}) >= 2
    IN /\ res.state = "lying" => (lying_score > sitting_score /\ lying_score > standing_score)
       /\ res.state = "sitting" =>
            (sitting_score > lying_score /\ sitting_score > standing_score)
       /\ tied => res.state = "standing"

\* the last no-pose frame stayed inside the short gap and returned a
\* FallEvent of the motion path
MotionEventInShortGap ==
  /\ op = "nopose" /\ res.missing_frames <= det.max_missing_frames
  /\ res.fall_detected /\ Val(res.fall_event).via = "motion_missing"

\* the spike check on the sample the handler analysed and the one before it
SpikeFired ==
  LET h == det.frame_diff_history
  IN Len(h) >= 2 /\ SpikePattern(h[Len(h)], h[Len(h) - 1])

\* the context conditions other than the magnitude of the spike itself
OtherContext ==
  \/ pre.was_falling_before_missing
  \/ pre.last_valid_acceleration > 200
  \/ (Len(pre.stability_scores) > 0 /\ pre.stability_scores[Len(pre.stability_scores)] < 600)
  \/ res.missing_frames >= 2

\* C18: a no-pose frame inside the short gap returns a motion-based
\* FallEvent only if the spike check fired, the cooldown has elapsed and the
\* context is valid: the subject was falling before the loss, or the last
\* acceleration exceeded 0.2, or the last stability was below 0.6, or at
\* least two frames are missing, or the magnitude is at least 1.0 x the motion
\* threshold.  A spike on the first missing frame below 1.0 x threshold with
\* none of the other conditions returns nothing.
C18_ContextGate ==
  /\ MotionEventInShortGap =>
       /\ SpikeFired
       /\ now - pre.last_fall_time >= cooldown_seconds
       /\ (OtherContext \/ res.motion_magnitude >= motion_threshold)
  /\ (op = "nopose" /\ res.missing_frames = 1 /\ SpikeFired
       /\ res.motion_magnitude < motion_threshold /\ ~OtherContext) => ~res.fall_detected

\* C19: a landmark array with the wrong number of landmarks makes
\* process_frame fail with an InvalidInput outcome and leaves the session
\* (histories, posture, counters, timers) as it was.
C19_MalformedRejected ==
  (op = "pose" /\ inp.pose = Truncated.name) => (res.kind = "invalid_input" /\ det = pre)

\* the tunables of the session are valid: no negative duration, no negative
\* frame count
ValidTunables ==
  /\ det.cooldown_seconds >= 0
  /\ det.lying_cooldown >= 0
  /\ det.lying_alert_threshold >= 0
  /\ det.max_missing_frames >= 0

\* C20: an invalid tunable is rejected when the session is constructed, so
\* no session that has processed a frame holds one.
C20_ConfigValidated == nframes > 0 => ValidTunables

\* C21: a reader of /api/stats or /api/camera/status running beside the
\* frame thread gets the posture and the fall count as one finished frame
\* left them, never half of an update, and /api/snapshot never copies a
\* frame buffer that is being written.
C21_ConsistentSnapshot ==
  /\ srv.seen \in srv.seen_choices
  /\ ~srv.snapshot_mid_write

\* C22: only the frame thread is ever inside a call on the detector
\* session, one call at a time; no HTTP or WebSocket handler thread calls
\* into it, so no two calls on the session overlap.
C22_SingleDriver ==
  /\ srv.callers \subseteq {"frame"}
  /\ srv.callers \subseteq Threads
  /\ Cardinality(srv.callers) <= 1
  /\ (srv.callers # {}) = (srv.pc = "detect")

C22_HandlerBesideCall ==
  /\ srv.seen_pc = "detect" /\ srv.pc = "detect" /\ srv.callers = {"frame"}
  /\ nframes >= 1

\* C23: on a pose frame with at least two speed samples and a positive time
\* step since the previous pose frame, the acceleration appended to
\* acceleration_history and kept in last_valid_acceleration is the speed of
\* this frame minus the speed of the previous pose frame, divided by the
\* time between the two.
C23_AccelerationIsSpeedChange ==
  LET v == det.velocity_history
      ts == det.timestamp_history
      n == Len(v)
      m == Len(ts)
  IN (op = "pose" /\ n >= 2 /\ m >= 2 /\ ts[m] - ts[m - 1] > 0) =>
       LET expected == (v[n] - v[n - 1]) \div (ts[m] - ts[m - 1])
       IN /\ det.last_valid_acceleration = expected
          /\ det.acceleration_history[Len(det.acceleration_history)] = expected

\* C24: every processed frame, with or without a pose, contributes exactly
\* one entry to frame_diff_history, and the sample the spike check compares
\* the new entry with (the entry before it) is the one the previous frame
\* left last.
C24_OneMotionSamplePerFrame ==
  LET h == det.frame_diff_history
      g == pre.frame_diff_history
  IN op \in {"pose", "nopose"} =>
       /\ Len(h) = Min(Len(g) + 1, frame_diff_history_size)
       /\ (Len(g) >= 1 /\ Len(h) >= 2) => h[Len(h) - 1] = g[Len(g)]

\* C25: on every frame after the first, with or without a pose, the motion
\* magnitude the frame decides on is the difference between
\* this frame and the frame of the previous process_frame call, i.e. what
\* one measurement against the stored frame of the previous call gives.
C25_MotionAgainstPreviousCall ==
  (op \in {"pose", "nopose"} /\ pre.use_motion_fallback /\ pre.prev_frame # None) =>
    res.motion_magnitude = detect_motion_magnitude(pre.prev_frame, inp.img).mag

\* the five per-frame pose histories and the acceleration history
PoseHistories(s) ==
  <<s.center_history, s.angle_history, s.timestamp_history, s.velocity_history,
    s.stability_scores, s.acceleration_history>>

\* C26: center_history, angle_history, timestamp_history, velocity_history
\* and stability_scores always have the same length and acceleration_history
\* has the smaller of that length and 10; a pose frame appends exactly one
\* entry to each of the six and a no-pose frame appends to none.
C26_HistoriesInStep ==
  LET n == Len(det.center_history)
  IN /\ Len(det.angle_history) = n
     /\ Len(det.timestamp_history) = n
     /\ Len(det.velocity_history) = n
     /\ Len(det.stability_scores) = n
     /\ Len(det.acceleration_history) = Min(n, acceleration_history_size)
     /\ op = "pose" => n = Min(Len(pre.center_history) + 1, history_size)
     /\ op = "nopose" => PoseHistories(det) = PoseHistories(pre)

\* a pose frame arrives when the long histories hold 30 entries, after a
\* reset() earlier in the recording
C26_FullAfterReset ==
  /\ op = "pose" /\ nresets >= 1
  /\ Len(pre.center_history) = history_size
  /\ Len(det.stability_scores) = history_size
  /\ Len(det.acceleration_history) = acceleration_history_size

\* appending to a full history h of capacity cap dropped its oldest entries:
\* what is left of h is the front of the new history g
DroppedOldest(h, g, cap, k) ==
  /\ Len(g) = cap
  /\ SubSeq(g, 1, cap - k) = SubSeq(h, k + 1, cap)

\* C27: center_history, angle_history, timestamp_history, velocity_history
\* and stability_scores never hold more than 30 entries, acceleration_history
\* and frame_diff_history never more than 10; appending to a full history
\* drops its oldest entry.
C27_BoundedHistories ==
  /\ Len(det.center_history) <= history_size
  /\ Len(det.angle_history) <= history_size
  /\ Len(det.timestamp_history) <= history_size
  /\ Len(det.velocity_history) <= history_size
  /\ Len(det.stability_scores) <= history_size
  /\ Len(det.acceleration_history) <= acceleration_history_size
  /\ Len(det.frame_diff_history) <= frame_diff_history_size
  /\ (op = "pose" /\ Len(pre.timestamp_history) = history_size) =>
       /\ DroppedOldest(pre.center_history, det.center_history, history_size, 1)
       /\ DroppedOldest(pre.angle_history, det.angle_history, history_size, 1)
       /\ DroppedOldest(pre.timestamp_history, det.timestamp_history, history_size, 1)
       /\ DroppedOldest(pre.velocity_history, det.velocity_history, history_size, 1)
       /\ DroppedOldest(pre.stability_scores, det.stability_scores, history_size, 1)
       /\ det.timestamp_history[history_size] = now
  /\ (op = "pose" /\ Len(pre.acceleration_history) = acceleration_history_size) =>
       DroppedOldest(pre.acceleration_history, det.acceleration_history,
                     acceleration_history_size, 1)
  /\ (op \in {"pose", "nopose"} /\ Len(pre.frame_diff_history) = frame_diff_history_size) =>
       \E k \in 1..2 :
         /\ DroppedOldest(pre.frame_diff_history, det.frame_diff_history,
                          frame_diff_history_size, k)
         /\ det.frame_diff_history[frame_diff_history_size] = res.motion_magnitude

\* a pose frame is appended to histories that are all full; the oldest
\* timestamp, which differs from the one after it, is gone
C27_AppendWhenFull ==
  /\ op = "pose"
  /\ Len(pre.timestamp_history) = history_size
  /\ Len(pre.acceleration_history) = acceleration_history_size
  /\ Len(pre.frame_diff_history) = frame_diff_history_size
  /\ pre.timestamp_history[1] # det.timestamp_history[1]
  /\ pre.frame_diff_history # det.frame_diff_history

\* the fields a no-pose frame inside the short gap may change
ShortGapMayChange(s, t) ==
  [s EXCEPT !.missing_frames = t.missing_frames,
            !.prev_frame = t.prev_frame,
            !.frame_diff_history = t.frame_diff_history,
            !.fall_confirmed = t.fall_confirmed,
            !.last_fall_time = t.last_fall_time]

\* C28: a no-pose frame with missing_frames <= max_missing_frames leaves
\* current_state, the last valid center, angle, speed and acceleration, the
\* six pose histories, fall_start_time, lying_start_time,
\* last_lying_alert_time and frames_in_falling_state as they were; it
\* changes only missing_frames (by one), the stored frame and the motion
\* history and, only when it returns a FallEvent, fall_confirmed and
\* last_fall_time.
C28_ShortGapFrameEffect ==
  (op = "nopose" /\ res.missing_frames <= pre.max_missing_frames) =>
    /\ det = ShortGapMayChange(pre, det)
    /\ det.missing_frames = pre.missing_frames + 1
    /\ IF res.fall_event = None
       THEN det.fall_confirmed = pre.fall_confirmed /\ det.last_fall_time = pre.last_fall_time
       ELSE det.fall_confirmed /\ det.last_fall_time = now

\* a no-pose frame inside the short gap returns a FallEvent while the
\* session holds a posture, pose histories and an open fall episode
C28_ShortGapEmits ==
  /\ op = "nopose" /\ res.missing_frames <= pre.max_missing_frames
  /\ res.fall_event # None
  /\ pre.current_state \notin {"unknown", "standing"}
  /\ Len(pre.center_history) >= 2
  /\ pre.last_valid_center # None
  /\ ~pre.fall_confirmed

\* what the voter alone makes of the scored input
ScoreVote ==
  LET v == Votes(Val(inp.angle), get_body_bbox_ratio(inp.pose),
                 get_head_hip_vertical_diff(inp.pose), get_leg_angle(inp.pose),
                 NormalizedY(inp.center_y, frame_height))
  IN Plurality(v[1], v[2], v[3])

\* C29: with a trunk angle available, _determine_pose_state returns Falling
\* if and only if the fall confidence exceeds 0.6 and the vertical speed
\* exceeds 0.3 x vertical_speed_threshold or the stability is below 0.3;
\* otherwise it returns what the voter returns, and the voter never returns
\* Falling.
C29_FallingGate ==
  (op = "score" /\ inp.angle # None) =>
    /\ (res.state = "falling") =
         (/\ res.fall_confidence > 600000
          /\ \/ inp.speed * 10 > vertical_speed_threshold * 3
             \/ inp.stability < 300)
    /\ ScoreVote \in {"lying", "sitting", "standing"}
    /\ res.state # "falling" => res.state = ScoreVote

\* the gate opens on the speed alone for the landmarks of an upright
\* subject high in the frame, whom the voter calls Standing
C29_GateOverridesVote ==
  /\ op = "score" /\ res.state = "falling"
  /\ inp.pose = Upright /\ inp.stability >= 300
  /\ inp.angle # None /\ ScoreVote = "standing"

\* the confidence of the scored input with the vertical position absent
ScoreBase(angle, vertical_speed, acceleration, stability) ==
  calculate_fall_confidence(angle, vertical_speed, acceleration, stability, None)

\* C30: _calculate_fall_confidence returns a value in [0, 1] for every
\* angle, positive or negative speed and acceleration, stability in [0, 1]
\* and vertical position present or absent, and 0 without a trunk angle;
\* the angle contributes at most 0.30, the downward speed at most 0.25, the
\* acceleration at most 0.20, the instability at most 0.15, the low position
\* at most 0.10 and only with an angle above 60, and the confidence is
\* reduced (to 0.8 of the sum) only when the normalized position is below 0.4.
C30_ConfidenceRange ==
  op = "score" =>
    /\ res.fall_confidence >= 0
    /\ res.fall_confidence <= 1000000
    /\ inp.angle = None => res.fall_confidence = 0
    /\ inp.angle # None =>
         LET from_angle == ScoreBase(inp.angle, 0, 0, 1000)
             from_speed == ScoreBase(Some(0), inp.speed, 0, 1000)
             from_accel == ScoreBase(Some(0), 0, inp.acceleration, 1000)
             from_instability == ScoreBase(Some(0), 0, 0, inp.stability)
             base == ScoreBase(inp.angle, inp.speed, inp.acceleration, inp.stability)
             y == NormalizedY(inp.center_y, frame_height)
         IN /\ from_angle \in 0..300000
            /\ from_speed \in 0..250000
            /\ inp.speed <= 0 => from_speed = 0
            /\ from_accel \in 0..200000
            /\ inp.acceleration <= 0 => from_accel = 0
            /\ from_instability \in 0..150000
            /\ base = from_angle + from_speed + from_accel + from_instability
            /\ res.fall_confidence <= base + 100000
            /\ res.fall_confidence > base =>
                 (y # None /\ Val(y) > 700 /\ Val(inp.angle) > 60)
            /\ res.fall_confidence < base =>
                 (y # None /\ Val(y) < 400 /\ res.fall_confidence = (base * 8) \div 10)

\* a subject high in the frame, moving up and slowing: the penalty applies
C30_PenaltyApplied ==
  /\ op = "score" /\ inp.angle # None
  /\ inp.speed < 0 /\ inp.acceleration < 0
  /\ inp.center_y = Some(399)
  /\ res.fall_confidence > 0
  /\ res.fall_confidence < ScoreBase(inp.angle, inp.speed, inp.acceleration, inp.stability)

\* a no-pose frame returned a FallEvent that the motion path did not build
FallbackEvent ==
  /\ op = "nopose" /\ res.fall_event # None
  /\ Val(res.fall_event).via # "motion_missing"

\* C31: a FallEvent that a no-pose frame returns without a motion-based
\* event is emitted only if the subject was falling before the loss, the
\* last valid speed exceeds 0.5 x vertical_speed_threshold, missing_frames
\* is at most 15 and the cooldown has elapsed; its confidence is
\* 0.85 - 0.3 x missing_frames / 15, within [0.55, 0.85].
C31_DisappearanceFallback ==
  FallbackEvent =>
    /\ pre.was_falling_before_missing
    /\ pre.last_valid_speed * 10 > vertical_speed_threshold * 5
    /\ res.missing_frames <= 15
    /\ res.missing_frames = pre.missing_frames + 1
    /\ now - pre.last_fall_time >= pre.cooldown_seconds
    /\ Val(res.fall_event).confidence * 15 = 850 * 15 - 300 * res.missing_frames
    /\ Val(res.fall_event).confidence \in 550..850

\* the fallback fires on the fifteenth missing frame, with confidence 0.55
C31_FifteenthMissingFrame ==
  /\ FallbackEvent
  /\ res.missing_frames = 15
  /\ Val(res.fall_event).confidence = 550

\* the vote totals of the scored input when the classifier is given the
\* box ratio r, the head-hip difference d, the leg angle l and the height y
MetricTotals(r, d, l, y) == Votes(Val(inp.angle), r, d, l, y)

\* what one factor adds to the totals of the angle alone
FactorVotes(r, d, l, y) ==
  [k \in 1..3 |-> MetricTotals(r, d, l, y)[k] - MetricTotals(None, None, None, None)[k]]

\* C32: an unavailable trunk angle gives posture Unknown; with an angle,
\* the totals are those of the angle alone (three votes) plus what each
\* available factor adds, an unavailable bbox ratio, head-hip difference,
\* leg angle or vertical position adding nothing to any bucket, and the
\* posture of a subject at rest is decided on those totals.
C32_UnavailableAddsNothing ==
  op = "score" =>
    IF inp.angle = None THEN res.state = "unknown"
    ELSE LET r == get_body_bbox_ratio(inp.pose)
             d == get_head_hip_vertical_diff(inp.pose)
             l == get_leg_angle(inp.pose)
             y == NormalizedY(inp.center_y, frame_height)
             alone == MetricTotals(None, None, None, None)
             all == MetricTotals(r, d, l, y)
         IN /\ alone[1] + alone[2] + alone[3] = 3
            /\ \A k \in 1..3 :
                 all[k] = alone[k] + FactorVotes(r, None, None, None)[k]
                          + FactorVotes(None, d, None, None)[k]
                          + FactorVotes(None, None, l, None)[k]
                          + FactorVotes(None, None, None, y)[k]
            /\ res.state = Plurality(all[1], all[2], all[3])

\* a trunk angle of 60 degrees with every other metric unavailable: Sitting
\* on the angle's own votes
C32_AngleAlone ==
  /\ op = "score" /\ inp.angle = Some(60)
  /\ get_body_bbox_ratio(inp.pose) = None
  /\ get_head_hip_vertical_diff(inp.pose) = None
  /\ get_leg_angle(inp.pose) = None
  /\ inp.center_y = None
  /\ res.state = "sitting"

\* C33: a pose frame classified Falling while fall_confirmed is false and
\* at least cooldown_seconds have passed since last_fall_time returns a
\* FallEvent in that same frame, whatever the time or number of frames the
\* subject has been falling; after it fall_confirmed is true and
\* last_fall_time is the frame's timestamp.
C33_ImmediateFallResponse ==
  (/\ op = "pose" /\ res.state = "falling"
   /\ ~pre.fall_confirmed
   /\ now - pre.last_fall_time >= pre.cooldown_seconds) =>
    /\ res.fall_detected
    /\ res.fall_event # None
    /\ Val(res.fall_event).timestamp = now
    /\ det.fall_confirmed
    /\ det.last_fall_time = now

\* the first Falling frame of a fall returns the event, with duration 0
C33_FirstFallingFrame ==
  /\ op = "pose" /\ res.state = "falling"
  /\ pre.current_state # "falling" /\ pre.fall_start_time = None
  /\ pre.frames_in_falling_state = 0
  /\ res.fall_event # None
  /\ Val(res.fall_event).duration = 0
  /\ det.last_fall_time = now

EndsFallInProgress ==
  \/ op = "pose" /\ res.state \in {"standing", "sitting"}
  \/ op = "nopose" /\ res.missing_frames > pre.max_missing_frames
  \/ op = "reset"

\* C35: while the posture is Standing or Sitting fall_start_time is unset;
\* it becomes set only in a pose frame classified Falling (to that frame's
\* time) and then keeps its value until a pose frame classified Standing or
\* Sitting, a gap longer than max_missing_frames or reset(), each of which
\* unsets it.
C35_FallInProgress ==
  /\ det.current_state \in {"standing", "sitting"} => det.fall_start_time = None
  /\ (pre.fall_start_time = None /\ det.fall_start_time # None) =>
       (op = "pose" /\ res.state = "falling" /\ det.fall_start_time = Some(now))
  /\ (pre.fall_start_time # None /\ det.fall_start_time # pre.fall_start_time) =>
       (EndsFallInProgress /\ det.fall_start_time = None)
  /\ (op # "init" /\ EndsFallInProgress) => det.fall_start_time = None

\* a fall in progress is carried through a no-pose frame of a short gap
\* that follows a frame classified Lying
C35_CarriedThroughGap ==
  /\ op = "nopose" /\ res.missing_frames <= pre.max_missing_frames
  /\ pre.fall_start_time # None
  /\ det.fall_start_time = pre.fall_start_time
  /\ det.current_state = "lying"
  /\ Val(det.fall_start_time) < now

\* C36: missing_frames is the number of consecutive no-pose frames
\* processed since the last frame that delivered keypoints, or since
\* construction or reset(); a frame that delivers keypoints sets it to 0,
\* and one whose landmarks are all below the confidence minimum is
\* classified Unknown at once.
C36_MissingFrameCounter ==
  /\ det.missing_frames = gap
  /\ op = "pose" => det.missing_frames = 0
  /\ op = "nopose" => det.missing_frames = pre.missing_frames + 1
  /\ op = "reset" => det.missing_frames = 0
  /\ (op = "pose" /\ inp.pose = "zeroconf") =>
       (res.state = "unknown" /\ det.current_state = "unknown")

\* keypoints without one confident landmark arrive inside a short gap while
\* a posture is retained: the counter returns to 0 and the posture is Unknown
C36_ZeroConfEndsGap ==
  /\ op = "pose" /\ inp.pose = "zeroconf"
  /\ pre.missing_frames >= 1 /\ pre.missing_frames <= pre.max_missing_frames
  /\ pre.current_state \notin {"unknown"}
  /\ det.missing_frames = 0
  /\ det.current_state = "unknown"

\* C37: for a session constructed without a pose model every process_frame
\* call returns posture Unknown and no event and leaves every field of the
\* session as it was.
C37_NoModelNoEffect ==
  (FrameOp /\ ~pre.model) =>
    /\ det = pre
    /\ res.state = "unknown"
    /\ ~res.fall_detected /\ res.fall_event = None
    /\ res.lying_event = None

\* the third frame given to such a session shows a prone subject on a
\* changed scene; no frame has been stored
C37_ThirdFrameIgnored ==
  /\ op = "pose" /\ ~det.model
  /\ inp.pose = "prone" /\ inp.img = "textured"
  /\ nframes >= 3
  /\ det = pre
  /\ det.prev_frame = None /\ det.frame_diff_history = <<>>

\* a pose frame follows; held is the posture the pose frame before it left
WasFallingAfterPoseFrame ==
  op' = "pose" =>
    (det'.was_falling_before_missing =
       (\/ res'.state = "falling" /\ held = "falling"
        \/ det.fall_start_time # None /\ res'.state # "standing"))

\* C38: after a pose frame was_falling_before_missing is true exactly if
\* the frame was classified Falling and so was the pose frame before it, or
\* fall_start_time was set before the frame and the frame was not classified
\* Standing; frames_in_falling_state is 0 whenever the last pose frame was
\* not classified Falling.
C38_WasFallingContext ==
  /\ [][WasFallingAfterPoseFrame]_vars
  /\ [](held # "falling" => det.frames_in_falling_state = 0)
  /\ [](held = "falling" => det.frames_in_falling_state >= 1)

\* one isolated Falling frame, then the detection is lost: the flag is false
C38_IsolatedFallingFrame ==
  /\ op = "nopose" /\ gap = 1
  /\ held = "falling"
  /\ det.frames_in_falling_state = 1
  /\ ~det.was_falling_before_missing
  /\ ~pre.was_falling_before_missing

====
